---- MODULE Spec2Model ----
(***************************************************************************)
(* Model of the portfolio calculators of utils/calculations.ts, of         *)
(* refreshPortfolioPrices and of the handlers of the App component.        *)
(*                                                                         *)
(* The numbers the calculators compute are IEEE 754 doubles, each          *)
(* operation rounded to the nearest double as in the program.  A field of  *)
(* a holding, a benchmark return and a constant of the source are kept as  *)
(* the decimal numeral n/d they are written as (d > 0, lowest terms) and   *)
(* read as the nearest double where the calculators use them.  undefined   *)
(* and null are the value Null.  Math.pow is computed as the engine        *)
(* computes it, on doubles.  A Date is its calendar day.                   *)
(***************************************************************************)
EXTENDS Integers, Sequences, FiniteSets, TLC

VARIABLES portfolio, referenceDate, ret,
          \* the API key of the build, the state of the App component and what
          \* surrounds it
          apiKey, storage, objectId, memo, isGenerating, isRefreshing, isRebalanceModalOpen,
          error, selectedStock, stockAnalysis, isAnalyzing, pending,
          \* the calls of refreshPortfolioPrices made so far
          refreshes

appVars == <<apiKey, storage, objectId, memo, isGenerating, isRefreshing, isRebalanceModalOpen,
             error, selectedStock, stockAnalysis, isAnalyzing, pending, refreshes>>

vars == <<portfolio, referenceDate, ret, appVars>>

\* ------------------------------------------------------------- bounds
MaxPositions == 3
\* the calls of the service that may be unanswered at a time
MaxInFlight == 2
\* the calls of refreshPortfolioPrices in a run
MaxRefreshes == 2

\* ------------------------------------------------------------- numbers
Null == [kind |-> "null"]

Abs(x) == IF x < 0 THEN -x ELSE x

RECURSIVE GCD(_, _)
GCD(a, b) == IF b = 0 THEN a ELSE GCD(b, a % b)

\* the rational n/d in lowest terms with a positive denominator
Rat(n, d) ==
    IF d = 0 THEN [kind |-> "number", n |-> IF n > 0 THEN 1 ELSE IF n < 0 THEN -1 ELSE 0, d |-> 0]
    ELSE LET g == GCD(Abs(n), Abs(d))
             s == IF d < 0 THEN -1 ELSE 1
         IN  [kind |-> "number", n |-> s * (n \div g), d |-> s * (d \div g)]

R(i) == Rat(i, 1)

\* a truthiness test in place of the typeof test: 0 is taken for missing
IsNumber_truthy(x) == x.kind = "number" /\ x.n # 0

\* typeof x === 'number'
IsNumber(x) == x.kind = "number"

RAdd(x, y) == Rat(x.n * y.d + y.n * x.d, x.d * y.d)
RSub(x, y) == Rat(x.n * y.d - y.n * x.d, x.d * y.d)
RMul(x, y) == Rat(x.n * y.n, x.d * y.d)
RDiv(x, y) == Rat(x.n * y.d, x.d * y.n)
RLess(x, y) == x.n * y.d < y.n * x.d

\* ------------------------------------------------------------- whole numbers of any size
\* A natural number as the sequence of its digits in base 2^14, the least
\* significant first, without leading zeros (0 is the empty sequence).
Base == 16384
LimbBits == 14

Max(a, b) == IF a > b THEN a ELSE b

RECURSIVE BigOfInt(_)
BigOfInt(n) == IF n = 0 THEN <<>> ELSE <<n % Base>> \o BigOfInt(n \div Base)

RECURSIVE BigNorm(_)
BigNorm(a) ==
    IF Len(a) = 0 \/ a[Len(a)] # 0 THEN a ELSE BigNorm(SubSeq(a, 1, Len(a) - 1))

Limb(a, i) == IF i <= Len(a) THEN a[i] ELSE 0

RECURSIVE BigCmpAt(_, _, _)
BigCmpAt(a, b, i) ==
    IF i = 0 THEN 0
    ELSE IF a[i] < b[i] THEN -1
    ELSE IF a[i] > b[i] THEN 1
    ELSE BigCmpAt(a, b, i - 1)

\* -1, 0 or 1 as a < b, a = b or a > b
BigCmp(a, b) ==
    IF Len(a) < Len(b) THEN -1
    ELSE IF Len(a) > Len(b) THEN 1
    ELSE BigCmpAt(a, b, Len(a))

RECURSIVE BigAddAt(_, _, _, _)
BigAddAt(a, b, i, carry) ==
    IF i > Len(a) /\ i > Len(b)
    THEN (IF carry = 0 THEN <<>> ELSE <<carry>>)
    ELSE LET s == Limb(a, i) + Limb(b, i) + carry
         IN  <<s % Base>> \o BigAddAt(a, b, i + 1, s \div Base)

BigAdd(a, b) == BigAddAt(a, b, 1, 0)

RECURSIVE BigSubAt(_, _, _, _)
BigSubAt(a, b, i, borrow) ==
    IF i > Len(a) THEN <<>>
    ELSE LET s == a[i] - Limb(b, i) - borrow
         IN  <<IF s < 0 THEN s + Base ELSE s>> \o BigSubAt(a, b, i + 1, IF s < 0 THEN 1 ELSE 0)

\* a - b for a >= b
BigSub(a, b) == BigNorm(BigSubAt(a, b, 1, 0))

RECURSIVE BigMulSmallAt(_, _, _, _)
BigMulSmallAt(a, k, i, carry) ==
    IF i > Len(a) THEN BigOfInt(carry)
    ELSE LET s == a[i] * k + carry
         IN  <<s % Base>> \o BigMulSmallAt(a, k, i + 1, s \div Base)

\* a * k for 0 <= k < 2^16
BigMulSmall(a, k) == IF k = 0 THEN <<>> ELSE BigMulSmallAt(a, k, 1, 0)

\* a * Base^k
ShiftLimbs(a, k) == IF Len(a) = 0 THEN a ELSE [i \in 1..k |-> 0] \o a

RECURSIVE BigMulAt(_, _, _)
BigMulAt(a, b, i) ==
    IF i > Len(b) THEN <<>>
    ELSE BigAdd(BigMulSmall(a, b[i]), ShiftLimbs(BigMulAt(a, b, i + 1), 1))

BigMul(a, b) == BigMulAt(a, b, 1)

\* a * 2^k
BigShl(a, k) == ShiftLimbs(BigMulSmall(a, 2 ^ (k % LimbBits)), k \div LimbBits)

RECURSIVE BigDivModSmallAt(_, _, _, _)
BigDivModSmallAt(a, d, i, rem) ==
    IF i = 0 THEN [q |-> <<>>, r |-> rem]
    ELSE LET cur == rem * Base + a[i]
             rest == BigDivModSmallAt(a, d, i - 1, cur % d)
         IN  [q |-> Append(rest.q, cur \div d), r |-> rest.r]

\* the quotient and the remainder of a by d, 0 < d < 2^16
BigDivModSmall(a, d) ==
    LET Normalised(qr) == [q |-> BigNorm(qr.q), r |-> qr.r]
    IN  Normalised(BigDivModSmallAt(a, d, Len(a), 0))

\* floor(a / 2^k)
BigShr(a, k) ==
    LET limbs == k \div LimbBits IN
    IF limbs >= Len(a) THEN <<>>
    ELSE BigDivModSmall(SubSeq(a, limbs + 1, Len(a)), 2 ^ (k % LimbBits)).q

\* bit k of a, bit 0 the least significant
BigBit(a, k) == (Limb(a, k \div LimbBits + 1) \div 2 ^ (k % LimbBits)) % 2

\* the largest digit t + u, u < 2^(bit + 1), with (2 * s * Base + t + u) * (t + u) <= cur
RECURSIVE RootDigit(_, _, _, _)
RootDigit(cur, s, bit, t) ==
    IF bit < 0 THEN t
    ELSE IF BigCmp(BigMulSmall(BigAdd(ShiftLimbs(BigAdd(s, s), 1), <<t + 2 ^ bit>>),
                               t + 2 ^ bit), cur) <= 0
    THEN RootDigit(cur, s, bit - 1, t + 2 ^ bit)
    ELSE RootDigit(cur, s, bit - 1, t)

\* the square root by hand: the digits 2i and 2i - 1 of a are brought down
\* to the remainder and the next digit of the root is found
RECURSIVE BigSqrtAt(_, _, _, _)
BigSqrtAt(a, i, s, rem) ==
    LET Below(cur, digit) ==
            IF digit = 0 THEN BigSqrtAt(a, i - 1, ShiftLimbs(s, 1), cur)
            ELSE BigSqrtAt(a, i - 1, <<digit>> \o s,
                           BigSub(cur, BigMulSmall(BigAdd(ShiftLimbs(BigAdd(s, s), 1),
                                                          <<digit>>), digit)))
        BroughtDown(cur) == Below(cur, RootDigit(cur, s, LimbBits - 1, 0))
    IN  IF i = 0 THEN [s |-> s, r |-> rem]
        ELSE BroughtDown(BigNorm(<<Limb(a, 2 * i - 1), Limb(a, 2 * i)>> \o rem))

\* s = floor(sqrt(a)) and r = a - s^2
BigSqrt(a) == BigSqrtAt(a, (Len(a) + 1) \div 2, <<>>, <<>>)

\* the value of a natural number below 2^31
RECURSIVE BigToIntAt(_, _)
BigToIntAt(a, i) == IF i > Len(a) THEN 0 ELSE a[i] + Base * BigToIntAt(a, i + 1)
BigToInt(a) == BigToIntAt(a, 1)

\* ------------------------------------------------------------- doubles
\* A Number of the program: the IEEE 754 double
\* (-1)^sign * (hi * 2^28 + lo) * 2^exp, or an infinity or NaN.  The
\* mantissa hi * 2^28 + lo has 53 bits (2^24 <= hi < 2^25, lo < 2^28) and
\* MinExp <= exp <= MaxExp; a subnormal number and zero have exp = MinExp
\* and a shorter mantissa.  The operations round their exact result to the
\* nearest double, ties to the even mantissa, as the arithmetic of the
\* engine does.
Precision == 53
MinExp == -1074
MaxExp == 971
Word == 268435456
HalfWord == 16384
Lead == 16777216

Finite(sign, hi, lo, exp) ==
    [kind |-> "number", class |-> "finite", sign |-> sign, hi |-> hi, lo |-> lo, exp |-> exp]
DInfinity(sign) ==
    [kind |-> "number", class |-> "infinite", sign |-> sign, hi |-> 0, lo |-> 0, exp |-> 0]
DNaN == [kind |-> "number", class |-> "nan", sign |-> 0, hi |-> 0, lo |-> 0, exp |-> 0]
DZero(sign) == Finite(sign, 0, 0, MinExp)

IsFinite(x) == x.class = "finite"
\* x === 0 (of either sign)
DIsZero(x) == x.class = "finite" /\ x.hi = 0 /\ x.lo = 0

\* the mantissa of x as a whole number of any size
Mantissa(x) == BigAdd(BigShl(BigOfInt(x.hi), 28), BigOfInt(x.lo))

\* the number of bits of a whole number below 2^31
RECURSIVE BitLength(_)
BitLength(n) ==
    IF n >= 65536 THEN 16 + BitLength(n \div 65536)
    ELSE IF n >= 256 THEN 8 + BitLength(n \div 256)
    ELSE IF n >= 16 THEN 4 + BitLength(n \div 16)
    ELSE IF n >= 4 THEN 2 + BitLength(n \div 4)
    ELSE IF n >= 2 THEN 2 ELSE n

\* the number of bits of h * 2^28 + l
PairBitLength(h, l) ==
    IF h >= Lead /\ h < 2 * Lead THEN Precision
    ELSE IF h > 0 THEN 28 + BitLength(h) ELSE BitLength(l)

\* h * 2^28 + l (h < 2^30, l < 2^28) without its d lowest bits, with the
\* highest of these bits (half) and whether a lower one is set (rest)
ShiftRight(h, l, d) ==
    IF d = 0 THEN [h |-> h, l |-> l, half |-> 0, rest |-> FALSE]
    ELSE IF d < 28
    THEN [h |-> h \div (2 ^ d),
          l |-> (l \div (2 ^ d)) + (h % (2 ^ d)) * (2 ^ (28 - d)),
          half |-> (l \div (2 ^ (d - 1))) % 2,
          rest |-> l % (2 ^ (d - 1)) # 0]
    ELSE IF d = 28
    THEN [h |-> h \div Word, l |-> h % Word, half |-> l \div (2 ^ 27),
          rest |-> l % (2 ^ 27) # 0]
    ELSE IF d <= 58
    THEN [h |-> (h \div (2 ^ (d - 28))) \div Word,
          l |-> (h \div (2 ^ (d - 28))) % Word,
          half |-> (h \div (2 ^ (d - 29))) % 2,
          rest |-> h % (2 ^ (d - 29)) # 0 \/ l # 0]
    ELSE [h |-> 0, l |-> 0, half |-> 0, rest |-> h # 0 \/ l # 0]

\* h * 2^28 + l with s zero bits appended, a number below 2^53
ShiftLeft(h, l, s) ==
    IF s < 28
    THEN [h |-> h * (2 ^ s) + (l \div (2 ^ (28 - s))), l |-> (l % (2 ^ (28 - s))) * (2 ^ s)]
    ELSE [h |-> l * (2 ^ (s - 28)), l |-> 0]

\* a mantissa whose dropped bits are the record m of ShiftRight and, below
\* those, sticky: rounded to nearest, ties to the even mantissa
RoundUp(m, sticky) ==
    IF m.half = 1 /\ (m.rest \/ sticky \/ m.l % 2 = 1)
    THEN (IF m.l + 1 = Word THEN [h |-> m.h + 1, l |-> 0] ELSE [h |-> m.h, l |-> m.l + 1])
    ELSE [h |-> m.h, l |-> m.l]

\* the double of the mantissa m and the exponent e: an infinity where e is
\* too large
RoundPacked(sign, m, e) ==
    IF m.h = 2 * Lead
    THEN (IF e + 1 > MaxExp THEN DInfinity(sign) ELSE Finite(sign, Lead, 0, e + 1))
    ELSE IF e > MaxExp THEN DInfinity(sign)
    ELSE Finite(sign, m.h, m.l, e)

\* the mantissa h * 2^28 + l with its d last bits rounded off, or with -d zero
\* bits appended
RoundPlaced(sign, h, l, exp, sticky, d) ==
    RoundPacked(sign,
                IF d > 0 THEN RoundUp(ShiftRight(h, l, d), sticky)
                ELSE IF d < 0 THEN ShiftLeft(h, l, -d)
                ELSE [h |-> h, l |-> l],
                exp + d)

\* the double nearest to (h * 2^28 + l + f) * 2^exp, where h < 2^30,
\* 0 <= f < 1, and f > 0 exactly when sticky; a caller that passes sticky
\* leaves more than 53 bits in the mantissa
DRound(sign, h, l, exp, sticky) ==
    IF h = 0 /\ l = 0 THEN DZero(sign)
    ELSE RoundPlaced(sign, h, l, exp, sticky,
                     Max(PairBitLength(h, l) - Precision, MinExp - exp))

\* the double of a whole number n, -2^31 < n < 2^31, which is that number
DInt(n) == DRound(IF n < 0 THEN 1 ELSE 0, Abs(n) \div Word, Abs(n) % Word, 0, FALSE)

DNeg(x) == [x EXCEPT !.sign = 1 - @]

NormalisedTo(m, exp) == [hi |-> m.h, lo |-> m.l, exp |-> exp]
NormalisedBy(x, s) == NormalisedTo(ShiftLeft(x.hi, x.lo, s), x.exp - s)
\* a finite x other than zero with a mantissa of 53 bits, whatever its exponent
Normalised(x) ==
    IF x.hi >= Lead THEN [hi |-> x.hi, lo |-> x.lo, exp |-> x.exp]
    ELSE NormalisedBy(x, Precision - PairBitLength(x.hi, x.lo))

\* the mantissa of z with three more bits
AddWide(z) == [h |-> z.hi * 8 + (z.lo \div 33554432), l |-> (z.lo % 33554432) * 8]
\* the shifted mantissa m with its lost bits kept as the last bit
AddJammed(m) ==
    [h |-> m.h, l |-> IF (m.half = 1 \/ m.rest) /\ m.l % 2 = 0 THEN m.l + 1 ELSE m.l]
AddPlus(a, b) == [h |-> a.h + b.h + ((a.l + b.l) \div Word), l |-> (a.l + b.l) % Word]
AddMinus(a, b) ==
    IF a.l >= b.l THEN [h |-> a.h - b.h, l |-> a.l - b.l]
    ELSE [h |-> a.h - b.h - 1, l |-> a.l + Word - b.l]
AddAbove(a, b) == a.h > b.h \/ (a.h = b.h /\ a.l > b.l)
AddRounded(sign, m, exp) == DRound(sign, m.h, m.l, exp, FALSE)
\* the sum of the magnitudes a and b of the signs xs and ys
AddSigned(xs, ys, a, b, exp) ==
    IF xs # ys /\ a.h = b.h /\ a.l = b.l THEN DZero(0)
    ELSE AddRounded(IF xs = ys \/ AddAbove(a, b) THEN xs ELSE ys,
                    IF xs = ys THEN AddPlus(a, b)
                    ELSE IF AddAbove(a, b) THEN AddMinus(a, b)
                    ELSE AddMinus(b, a),
                    exp)
AddAligned(x, y, a, b) ==
    AddSigned(x.sign, y.sign,
              AddJammed(ShiftRight(a.h, a.l, Max(y.exp - x.exp, 0))),
              AddJammed(ShiftRight(b.h, b.l, Max(x.exp - y.exp, 0))),
              Max(x.exp, y.exp) - 3)

\* x + y, by the magnitudes with three more bits each, the smaller one
\* aligned to the other with its lost bits kept as the last bit
DAdd(x, y) ==
    IF x.class = "nan" \/ y.class = "nan" THEN DNaN
    ELSE IF x.class = "infinite"
    THEN (IF y.class = "infinite" /\ y.sign # x.sign THEN DNaN ELSE x)
    ELSE IF y.class = "infinite" THEN y
    ELSE IF DIsZero(x) /\ DIsZero(y) THEN DZero(IF x.sign = 1 /\ y.sign = 1 THEN 1 ELSE 0)
    ELSE IF DIsZero(x) THEN y
    ELSE IF DIsZero(y) THEN x
    ELSE AddAligned(x, y, AddWide(x), AddWide(y))

\* x - y
DSub(x, y) == DAdd(x, DNeg(y))

\* the four digits base 2^14 of a mantissa
Digits(a) ==
    [d3 |-> a.hi \div HalfWord, d2 |-> a.hi % HalfWord,
     d1 |-> a.lo \div HalfWord, d0 |-> a.lo % HalfWord]

\* the columns of the long multiplication of two mantissas by their digits,
\* and the columns with the carries of the lower ones, k1 .. k5
ProductColumns(a, b) ==
    << a.d0 * b.d0,
       a.d1 * b.d0 + a.d0 * b.d1,
       a.d2 * b.d0 + a.d1 * b.d1 + a.d0 * b.d2,
       a.d3 * b.d0 + a.d2 * b.d1 + a.d1 * b.d2 + a.d0 * b.d3,
       a.d3 * b.d1 + a.d2 * b.d2 + a.d1 * b.d3,
       a.d3 * b.d2 + a.d2 * b.d3,
       a.d3 * b.d3 >>
ProductCarry5(c, k1, k2, k3, k4, k5) ==
    [p0 |-> (c[1] % HalfWord) + HalfWord * (k1 % HalfWord),
     p1 |-> (k2 % HalfWord) + HalfWord * (k3 % HalfWord),
     p2 |-> (k4 % HalfWord) + HalfWord * (k5 % HalfWord),
     p3 |-> c[7] + (k5 \div HalfWord)]
ProductCarry4(c, k1, k2, k3, k4) ==
    ProductCarry5(c, k1, k2, k3, k4, c[6] + (k4 \div HalfWord))
ProductCarry3(c, k1, k2, k3) == ProductCarry4(c, k1, k2, k3, c[5] + (k3 \div HalfWord))
ProductCarry2(c, k1, k2) == ProductCarry3(c, k1, k2, c[4] + (k2 \div HalfWord))
ProductCarry1(c, k1) == ProductCarry2(c, k1, c[3] + (k1 \div HalfWord))
ProductCarry(c) == ProductCarry1(c, c[2] + (c[1] \div HalfWord))

\* the product of two mantissas of 53 bits, p3 * 2^84 + p2 * 2^56 + p1 * 2^28 + p0
Product(a, b) == ProductCarry(ProductColumns(Digits(a), Digits(b)))

\* the sign of a product or a quotient
SignOf(x, y) == IF x.sign = y.sign THEN 0 ELSE 1

MulTop(sign, p, exp) ==
    DRound(sign, p.p3 * 64 + (p.p2 \div 4194304),
           (p.p2 % 4194304) * 64 + (p.p1 \div 4194304),
           exp + 50, p.p1 % 4194304 # 0 \/ p.p0 # 0)
MulFactors(sign, a, b) == MulTop(sign, Product(a, b), a.exp + b.exp)

\* x * y
DMul(x, y) ==
    IF x.class = "nan" \/ y.class = "nan" THEN DNaN
    ELSE IF x.class = "infinite" \/ y.class = "infinite"
    THEN (IF DIsZero(x) \/ DIsZero(y) THEN DNaN ELSE DInfinity(SignOf(x, y)))
    ELSE IF DIsZero(x) \/ DIsZero(y) THEN DZero(SignOf(x, y))
    ELSE MulFactors(SignOf(x, y), Normalised(x), Normalised(y))

\* the remainder r is at least the divisor b
DivAtLeast(r, b) == r.h > b.hi \/ (r.h = b.hi /\ r.l >= b.lo)
\* r - b
DivLess(r, b) ==
    IF r.l >= b.lo THEN [h |-> r.h - b.hi, l |-> r.l - b.lo]
    ELSE [h |-> r.h - b.hi - 1, l |-> r.l + Word - b.lo]
\* r * 2^14 - d * b, a number below 2^54, by its digits base 2^28: y0 and y1
\* are those of d * b, t0 .. t2 the columns of d * b with their carries
DivRestLow(r, y0, y1) ==
    [h |-> ((r.l \div HalfWord) + HalfWord * (r.h % HalfWord)
            - (y1 + (IF HalfWord * (r.l % HalfWord) < y0 THEN 1 ELSE 0)) + Word) % Word,
     l |-> (HalfWord * (r.l % HalfWord) - y0 + Word) % Word]
DivRest3(r, d, bd, t0, t1, t2) ==
    DivRestLow(r, (t0 % HalfWord) + HalfWord * (t1 % HalfWord),
               (t2 % HalfWord) + HalfWord * ((d * bd.d3 + (t2 \div HalfWord)) % HalfWord))
DivRest2(r, d, bd, t0, t1) == DivRest3(r, d, bd, t0, t1, d * bd.d2 + (t1 \div HalfWord))
DivRest1(r, d, bd, t0) == DivRest2(r, d, bd, t0, d * bd.d1 + (t0 \div HalfWord))
DivRest(r, d, bd) == DivRest1(r, d, bd, d * bd.d0)
\* the digit d with its remainder r, one more where r is not below b
DivCorrected(r, d, b) ==
    IF DivAtLeast(r, b) THEN [r |-> DivLess(r, b), d |-> d + 1] ELSE [r |-> r, d |-> d]
DivLowered(e) == IF e = 0 THEN 0 ELSE e - 1
\* a digit from the upper 30 bits of the remainder and the upper 16 bits of
\* the divisor: right or one too small
DivEstimate(r, b) == DivLowered((r.h * 32 + (r.l \div 8388608)) \div (b.hi \div 512))
DivTried(r, d, b, bd) == DivCorrected(DivRest(r, d, bd), d, b)
\* the next digit of the quotient after the remainder r
DivDigit(r, b, bd) == DivTried(r, DivEstimate(r, b), b, bd)
DivDigits4(s0, s1, s2, s3, s4) ==
    [h |-> s0.d * Word + s1.d * HalfWord + s2.d, l |-> s3.d * HalfWord + s4.d,
     rest |-> s4.r.h # 0 \/ s4.r.l # 0]
DivDigits3(b, bd, s0, s1, s2, s3) == DivDigits4(s0, s1, s2, s3, DivDigit(s3.r, b, bd))
DivDigits2(b, bd, s0, s1, s2) == DivDigits3(b, bd, s0, s1, s2, DivDigit(s2.r, b, bd))
DivDigits1(b, bd, s0, s1) == DivDigits2(b, bd, s0, s1, DivDigit(s1.r, b, bd))
DivDigits(b, bd, s0) == DivDigits1(b, bd, s0, DivDigit(s0.r, b, bd))

\* the quotient of two mantissas of 53 bits with 56 more bits, a number
\* q.h * 2^28 + q.l, and whether the division leaves a remainder: long
\* division with the digits base 2^14.  A digit is estimated from the upper
\* 30 bits of the remainder and the upper 16 bits of the divisor, which makes
\* it right or one too small, and then corrected.
Quotient(a, b) == DivDigits(b, Digits(b), DivCorrected([h |-> a.hi, l |-> a.lo], 0, b))

DivRounded(sign, q, exp) == DRound(sign, q.h, q.l, exp - 56, q.rest)
DivOperands(sign, a, b) == DivRounded(sign, Quotient(a, b), a.exp - b.exp)

\* x / y
DDiv(x, y) ==
    IF x.class = "nan" \/ y.class = "nan" THEN DNaN
    ELSE IF x.class = "infinite"
    THEN (IF y.class = "infinite" THEN DNaN ELSE DInfinity(SignOf(x, y)))
    ELSE IF y.class = "infinite" THEN DZero(SignOf(x, y))
    ELSE IF DIsZero(y) THEN (IF DIsZero(x) THEN DNaN ELSE DInfinity(SignOf(x, y)))
    ELSE IF DIsZero(x) THEN DZero(SignOf(x, y))
    ELSE DivOperands(SignOf(x, y), Normalised(x), Normalised(y))

\* Math.sqrt(x)
DSqrt(x) ==
    IF x.class = "nan" THEN DNaN
    ELSE IF DIsZero(x) THEN x
    ELSE IF x.sign = 1 THEN DNaN
    ELSE IF x.class = "infinite" THEN x
    ELSE LET Root(sr, shift) ==
                 DRound(0, BigToInt(BigShr(sr.s, 28)), Limb(sr.s, 1) + Base * Limb(sr.s, 2),
                        (x.exp - shift) \div 2, Len(sr.r) > 0)
             Shifted(shift) == Root(BigSqrt(BigShl(Mantissa(x), shift)), shift)
             Even(need) == Shifted(IF (x.exp - need) % 2 = 0 THEN need ELSE need + 1)
         IN  Even(Max(2 * (Precision + 2) - PairBitLength(x.hi, x.lo), 0))

\* x < y
DLess(x, y) ==
    IF x.class = "nan" \/ y.class = "nan" THEN FALSE
    ELSE LET Negative(d) == d.class # "nan" /\ ~DIsZero(d) /\ d.sign = 1
         IN  Negative(DSub(x, y))

\* x >= 0
DNonNegative(x) == x.class # "nan" /\ (x.sign = 0 \/ DIsZero(x))

\* the double a decimal numeral n/d denotes: the one nearest to its value
Double(x) ==
    IF x.d = 0 THEN (IF x.n = 0 THEN DNaN ELSE DInfinity(IF x.n < 0 THEN 1 ELSE 0))
    ELSE DDiv(DInt(x.n), DInt(x.d))

\* ------------------------------------------------------------- constants
RISK_FREE_RATE == Rat(425, 100)
EXPENSE_RATIO == Rat(10, 100)
diversificationFactor == Rat(7, 10)

\* ------------------------------------------------------------- calculators
\* A field of a holding and a constant are kept as the decimal numeral n/d
\* they were written as, a weight as a whole number; the calculators compute
\* in doubles, as the program does.

\* (pos.weight / 100) * value
WeightedValue(weight, value) == DMul(DDiv(DInt(weight), DInt(100)), Double(value))

\* calculateDividendYield: one iteration of the forEach
DividendYieldStep(acc, pos) ==
    IF IsNumber(pos.dividendYieldPercent)
    THEN [weightedSum |-> DAdd(acc.weightedSum,
                               WeightedValue(pos.weight, pos.dividendYieldPercent)),
          validWeight |-> acc.validWeight + pos.weight]
    ELSE acc

RECURSIVE DividendYieldLoop(_, _, _)
DividendYieldLoop(positions, i, acc) ==
    IF i > Len(positions) THEN acc
    ELSE DividendYieldLoop(positions, i + 1, DividendYieldStep(acc, positions[i]))

\* a non-strict comparison
DividendYieldGate_atLeast(validWeight) == validWeight >= 50

DividendYieldGate(validWeight) == validWeight > 50

\* (weightedSum / validWeight) * 100
Renormalise(weightedSum, validWeight) ==
    DMul(DDiv(weightedSum, DInt(validWeight)), DInt(100))

calculateDividendYield(p) ==
    LET Gated(acc) ==
            IF DividendYieldGate(acc.validWeight)
            THEN Renormalise(acc.weightedSum, acc.validWeight)
            ELSE Null
    IN  Gated(DividendYieldLoop(p.positions, 1, [weightedSum |-> DZero(0), validWeight |-> 0]))

\* the weight of every holding is counted, with or without the field
WeightedReturnStep_everyWeight(acc, pos, key) ==
    [weightedSum |-> IF IsNumber(pos[key])
                     THEN DAdd(acc.weightedSum, WeightedValue(pos.weight, pos[key]))
                     ELSE acc.weightedSum,
     validWeight |-> acc.validWeight + pos.weight]

\* calculateWeightedReturn: one iteration of the forEach
WeightedReturnStep(acc, pos, key) ==
    IF IsNumber(pos[key])
    THEN [weightedSum |-> DAdd(acc.weightedSum, WeightedValue(pos.weight, pos[key])),
          validWeight |-> acc.validWeight + pos.weight]
    ELSE acc

RECURSIVE WeightedReturnLoop(_, _, _, _)
WeightedReturnLoop(positions, key, i, acc) ==
    IF i > Len(positions) THEN acc
    ELSE WeightedReturnLoop(positions, key, i + 1, WeightedReturnStep(acc, positions[i], key))

\* a non-strict comparison
WeightedReturnGate_atLeast(validWeight) == validWeight >= 50

WeightedReturnGate(validWeight) == validWeight > 50

calculateWeightedReturn(p, key) ==
    LET Gated(acc) ==
            IF WeightedReturnGate(acc.validWeight)
            THEN Renormalise(acc.weightedSum, acc.validWeight)
            ELSE Null
    IN  Gated(WeightedReturnLoop(p.positions, key, 1,
                                 [weightedSum |-> DZero(0), validWeight |-> 0]))

\* a missing aggregate defaulted to 0 before the deduction
calculateProjectedReturn_defaultZero(p) ==
    LET Net(oneYearReturn) ==
            DSub(IF oneYearReturn # Null THEN oneYearReturn ELSE DZero(0),
                 Double(EXPENSE_RATIO))
    IN  Net(calculateWeightedReturn(p, "oneYearChangePercent"))

calculateProjectedReturn(p) ==
    LET Net(oneYearReturn) ==
            IF oneYearReturn # Null
            THEN DSub(oneYearReturn, Double(EXPENSE_RATIO))
            ELSE Null
    IN  Net(calculateWeightedReturn(p, "oneYearChangePercent"))

\* estimateVolatility: the forEach collecting returns and totalWeight
RECURSIVE VolatilityLoop(_, _, _)
VolatilityLoop(positions, i, acc) ==
    IF i > Len(positions) THEN acc
    ELSE LET pos == positions[i] IN
         IF IsNumber(pos.oneYearChangePercent)
         THEN VolatilityLoop(positions, i + 1,
                  [returns |-> Append(acc.returns, Double(pos.oneYearChangePercent)),
                   totalWeight |-> acc.totalWeight + pos.weight])
         ELSE VolatilityLoop(positions, i + 1, acc)

\* the weight test of the aggregators (<= 50) in place of < 50
VolatilityInsufficient_strictWeight(returns, totalWeight) ==
    Len(returns) < 3 \/ totalWeight <= 50

\* returns.length < 3 || totalWeight < 50
VolatilityInsufficient(returns, totalWeight) == Len(returns) < 3 \/ totalWeight < 50

\* xs.reduce((a, b) => a + b, 0)
RECURSIVE ReduceSum(_, _, _)
ReduceSum(xs, i, a) ==
    IF i > Len(xs) THEN a ELSE ReduceSum(xs, i + 1, DAdd(a, xs[i]))

Mean(returns) == DDiv(ReduceSum(returns, 1, DZero(0)), DInt(Len(returns)))

\* Math.pow(x, 2): the product x * x, rounded
Square(x) == DMul(x, x)

Variance(returns) ==
    LET SquaredDiffs(mean) == [i \in 1..Len(returns) |-> Square(DSub(returns[i], mean))]
    IN  DDiv(ReduceSum(SquaredDiffs(Mean(returns)), 1, DZero(0)), DInt(Len(returns)))

estimateVolatility(p) ==
    LET Diversified(stdDev) == DMul(stdDev, Double(diversificationFactor))
        Estimated(acc) ==
            IF VolatilityInsufficient(acc.returns, acc.totalWeight)
            THEN Null
            ELSE Diversified(DSqrt(Variance(acc.returns)))
    IN  Estimated(VolatilityLoop(p.positions, 1, [returns |-> <<>>, totalWeight |-> 0]))

\* the test without its volatility === 0 disjunct
SharpeUndefined_noZeroTest(projectedReturn, volatility) ==
    projectedReturn = Null \/ volatility = Null

\* projectedReturn === null || volatility === null || volatility === 0
SharpeUndefined(projectedReturn, volatility) ==
    projectedReturn = Null \/ volatility = Null \/ DIsZero(volatility)

\* the operands of the subtraction exchanged
ExcessReturn_reversed(projectedReturn) == DSub(Double(RISK_FREE_RATE), projectedReturn)

ExcessReturn(projectedReturn) == DSub(projectedReturn, Double(RISK_FREE_RATE))

calculateSharpeRatio(p) ==
    LET Ratio(projectedReturn, volatility) ==
            IF SharpeUndefined(projectedReturn, volatility)
            THEN Null
            ELSE DDiv(ExcessReturn(projectedReturn), volatility)
    IN  Ratio(calculateProjectedReturn(p), estimateVolatility(p))

\* ------------------------------------------------------------- calculateAllMetrics
\* the decimal digits of a whole number, the most significant first
RECURSIVE DigitsOf(_)
DigitsOf(a) ==
    IF Len(a) = 0 THEN <<>>
    ELSE LET Appended(qr) == Append(DigitsOf(qr.q), qr.r) IN Appended(BigDivModSmall(a, 10))

\* |x| >= 10^21
AtLeast1e21(x) ==
    \/ PairBitLength(x.hi, x.lo) + x.exp > 70
    \/ /\ PairBitLength(x.hi, x.lo) + x.exp = 70
       /\ BigCmp(BigShl(Mantissa(x), x.exp), BigMul(BigMul(BigOfInt(10 ^ 9), BigOfInt(10 ^ 9)), <<1000>>)) >= 0

\* x.toFixed(digits): the numeral of the whole number n for which
\* n / 10^digits - |x| is as close to zero as possible, the larger n of two,
\* written with `digits` digits after the point and with the sign of x < 0.
\* The numeral is kept as the digits of n.  A value that is not finite or
\* not below 10^21 is written as String(x), kept as a term.
ToFixed(x, digits) ==
    IF ~IsFinite(x) \/ AtLeast1e21(x) THEN [kind |-> "string", of |-> x]
    ELSE LET HalfUp(whole, half) == IF half THEN BigAdd(whole, <<1>>) ELSE whole
             Nearest(scaled) ==
                 IF x.exp >= 0 THEN BigShl(scaled, x.exp)
                 ELSE HalfUp(BigShr(scaled, -x.exp), BigBit(scaled, -x.exp - 1) = 1)
         IN  [kind |-> "string", negative |-> x.sign = 1 /\ ~DIsZero(x),
              scaled |-> DigitsOf(Nearest(BigMul(Mantissa(x), BigOfInt(10 ^ digits)))),
              digits |-> digits]

\* the template literal `${prefix}${numeral}${suffix}`
Template(prefix, numeral, suffix) ==
    [kind |-> "string", prefix |-> prefix, numeral |-> numeral, suffix |-> suffix]

\* a formatter that shows a missing projected return as "+0.0%"
calculateAllMetrics_zeroPlaceholder(p) ==
    LET Formatted(projectedReturnNum, dividendYieldNum, sharpeRatioNum, volatility) ==
            [projectedReturn |->
                 IF projectedReturnNum # Null
                 THEN Template(IF DNonNegative(projectedReturnNum) THEN "+" ELSE "",
                               ToFixed(projectedReturnNum, 1), "%")
                 ELSE Template("+", ToFixed(DZero(0), 1), "%"),
             dividendYield |->
                 IF dividendYieldNum # Null
                 THEN Template("", ToFixed(dividendYieldNum, 2), "%")
                 ELSE Null,
             sharpeRatio |->
                 IF sharpeRatioNum # Null THEN ToFixed(sharpeRatioNum, 2) ELSE Null,
             annualizedVolatility |-> volatility]
    IN  Formatted(calculateProjectedReturn(p), calculateDividendYield(p),
                  calculateSharpeRatio(p), estimateVolatility(p))

calculateAllMetrics(p) ==
    LET Formatted(projectedReturnNum, dividendYieldNum, sharpeRatioNum, volatility) ==
            [projectedReturn |->
                 IF projectedReturnNum # Null
                 THEN Template(IF DNonNegative(projectedReturnNum) THEN "+" ELSE "",
                               ToFixed(projectedReturnNum, 1), "%")
                 ELSE Null,
             dividendYield |->
                 IF dividendYieldNum # Null
                 THEN Template("", ToFixed(dividendYieldNum, 2), "%")
                 ELSE Null,
             sharpeRatio |->
                 IF sharpeRatioNum # Null THEN ToFixed(sharpeRatioNum, 2) ELSE Null,
             annualizedVolatility |-> volatility]
    IN  Formatted(calculateProjectedReturn(p), calculateDividendYield(p),
                  calculateSharpeRatio(p), estimateVolatility(p))

\* ------------------------------------------------------------- Math.pow
\* Math.pow(x, y) as the JavaScript engine computes it on doubles: the
\* algorithm of fdlibm's e_pow.c, which the engine runs with one change (the
\* last quotient is taken in one division).  log2(|x|) is computed as a pair
\* t1 + t2 of doubles, y * log2(|x|) as p_h + p_l, and 2^(p_h + p_l) from its
\* integer part n and a polynomial in the rest.  The names are those of
\* e_pow.c.

\* the high word of the encoding of |x|: 11 exponent bits, then the upper 20
\* bits of the fraction
HighWord(x) ==
    IF x.class = "nan" THEN 2146959360
    ELSE IF x.class = "infinite" THEN 2146435072
    ELSE (x.exp - MinExp) * 1048576 + (x.hi \div 16)

\* the low word of the encoding of x (the lower 32 bits of the fraction) is 0
LowWordIsZero(x) == ~IsFinite(x) \/ (x.hi % 16 = 0 /\ x.lo = 0)

\* SET_LOW_WORD(x, 0): x with the lower 32 bits of its fraction cleared
ClearLowWord(x) ==
    IF ~IsFinite(x) THEN x ELSE Finite(x.sign, x.hi - (x.hi % 16), 0, x.exp)

\* the double of the given sign whose high word is h and whose low word is 0
FromHighWord(sign, h) ==
    IF h \div 1048576 = 0 THEN Finite(sign, h * 16, 0, MinExp)
    ELSE Finite(sign, (1048576 + (h % 1048576)) * 16, 0, (h \div 1048576) + MinExp - 1)

\* scalbn(x, n): x * 2^n
Scalbn(x, n) ==
    IF ~IsFinite(x) \/ DIsZero(x) THEN x ELSE DRound(x.sign, x.hi, x.lo, x.exp + n, FALSE)

\* c[i] + x * (c[i+1] + x * (... + x * c[Len(c)]))
RECURSIVE Horner(_, _, _)
Horner(c, i, x) ==
    IF i = Len(c) THEN c[i] ELSE DAdd(c[i], DMul(x, Horner(c, i + 1, x)))

\* the constants of e_pow.c, each the double its decimal numeral denotes
\* L1 .. L6 = 5.99999999999994648725e-01, 4.28571428578550184252e-01,
\* 3.33333329818377432918e-01, 2.72728123808534006489e-01,
\* 2.30660745775561754067e-01, 2.06975017800338417784e-01
PowL ==
    << Finite(0, 20132659, 53687043, -53),
       Finite(0, 28760941, 191867903, -54),
       Finite(0, 22369621, 26158669, -54),
       Finite(0, 18302474, 152912129, -54),
       Finite(0, 30958761, 63560549, -55),
       Finite(0, 27779716, 172314351, -55) >>
\* P1 .. P5 = 1.66666666666666019037e-01, -2.77777777770155933842e-03,
\* 6.61375632143793436117e-05, -1.65339022054652515390e-06,
\* 4.13813679705723846039e-08
PowP ==
    << Finite(0, 22369621, 89478462, -55),
       Finite(1, 23860929, 113163667, -61),
       Finite(0, 18179754, 254139948, -66),
       Finite(1, 29086748, 97676273, -72),
       Finite(0, 23295639, 46048464, -77) >>
\* bp = {1, 1.5}, dp_h = {0, 5.84962487220764160156e-01},
\* dp_l = {0, 1.35003920212974897128e-08}, indexed by k + 1
bp == << DInt(1), Finite(0, 25165824, 0, -52) >>
dp_h == << DZero(0), Finite(0, 19628084, 0, -53) >>
dp_l == << DZero(0), Finite(0, 30400180, 63950854, -79) >>
\* lg2 = 6.93147180559945286227e-01 and its split lg2_h + lg2_l
lg2 == Finite(0, 23258159, 251279855, -53)
lg2_h == Finite(0, 23258160, 0, -53)
lg2_l == Finite(1, 17155600, 212364345, -81)
\* ovt = 8.0085662595372944372e-17, -(1024 - log2(overflow + 0.5 ulp))
ovt == Finite(0, 24204406, 86737662, -106)
\* cp = 9.61796693925975554329e-01 = 2 / (3 ln 2) and its split cp_h + cp_l
cp == Finite(0, 32272541, 205128701, -53)
cp_h == Finite(0, 32272542, 0, -53)
cp_l == Finite(1, 31653377, 73073141, -80)
\* ivln2 = 1.44269504088896338700e+00 = 1 / ln 2 and its split
ivln2 == Finite(0, 24204406, 86737662, -52)
ivln2_h == Finite(0, 24204406, 0, -52)
ivln2_l == Finite(0, 21684415, 140369732, -78)

\* n = the binade of ax, moved up by one where the fraction is above
\* sqrt(3/2); k = the interval of bp the fraction lies in; ix = the high word
\* of ax scaled by 2^(-n)
PowInterval(e, j) ==
    IF j <= 235662 THEN [n |-> e, k |-> 1, ix |-> j + 1072693248]
    ELSE IF j < 767610 THEN [n |-> e, k |-> 2, ix |-> j + 1072693248]
    ELSE [n |-> e + 1, k |-> 1, ix |-> j + 1071644672]
\* ax scaled by 2^(-n), and t_h = the high word of ax + bp[k]
PowScaled(a, i) ==
    [n |-> i.n, k |-> i.k,
     ax |-> Finite(0, a.hi, a.lo, a.exp - i.n),
     t_h |-> FromHighWord(0, (i.ix \div 2) + 536870912 + 524288 + (i.k - 1) * 262144)]
PowBinade(a) == PowScaled(a, PowInterval(a.exp + Precision - 1, (a.hi \div 16) - 1048576))
\* the steps of log2(ax), on the variables of e_pow.c:
\* ss = s_h + s_l = (ax - bp) / (ax + bp)
PowLog2Step1(s) ==
    s @@ [u |-> DSub(s.ax, bp[s.k]), v |-> DDiv(DInt(1), DAdd(s.ax, bp[s.k]))]
PowLog2Step2(s) ==
    s @@ [ss |-> DMul(s.u, s.v), t_l |-> DSub(s.ax, DSub(s.t_h, bp[s.k]))]
PowLog2Step3(s) == s @@ [s_h |-> ClearLowWord(s.ss), s2 |-> DMul(s.ss, s.ss)]
\* r = the polynomial of log(ax) in s2 = ss * ss
PowLog2Step4(s) ==
    s @@ [s_l |-> DMul(s.v, DSub(DSub(s.u, DMul(s.s_h, s.t_h)), DMul(s.s_h, s.t_l))),
          r |-> DMul(DMul(s.s2, s.s2), Horner(PowL, 1, s.s2))]
PowLog2Step5(s) ==
    [s EXCEPT !.r = DAdd(s.r, DMul(s.s_l, DAdd(s.s_h, s.ss))), !.s2 = DMul(s.s_h, s.s_h)]
PowLog2Step6(s) == [s EXCEPT !.t_h = ClearLowWord(DAdd(DAdd(DInt(3), s.s2), s.r))]
PowLog2Step7(s) ==
    [s EXCEPT !.t_l = DSub(s.r, DSub(DSub(s.t_h, DInt(3)), s.s2)), !.u = DMul(s.s_h, s.t_h)]
PowLog2Step8(s) == [s EXCEPT !.v = DAdd(DMul(s.s_l, s.t_h), DMul(s.t_l, s.ss))]
\* p_h + p_l = 2 / (3 ln 2) * log(ax), then z_h + z_l and log2(ax) = t1 + t2
PowLog2Step9(s) == s @@ [p_h |-> ClearLowWord(DAdd(s.u, s.v))]
PowLog2Step10(s) == s @@ [p_l |-> DSub(s.v, DSub(s.p_h, s.u))]
PowLog2Step11(s) ==
    s @@ [z_h |-> DMul(cp_h, s.p_h),
          z_l |-> DAdd(DAdd(DMul(cp_l, s.p_h), DMul(s.p_l, cp)), dp_l[s.k]),
          t |-> DInt(s.n)]
PowLog2Step12(s) ==
    s @@ [t1 |-> ClearLowWord(DAdd(DAdd(DAdd(s.z_h, s.z_l), dp_h[s.k]), s.t))]
PowLog2Step13(s) ==
    [t1 |-> s.t1, t2 |-> DSub(s.z_l, DSub(DSub(DSub(s.t1, s.t), dp_h[s.k]), s.z_h))]

\* log2(ax) as [t1, t2] for a positive finite ax, where |y| < 2^31
PowLog2(ax) ==
    PowLog2Step13(PowLog2Step12(PowLog2Step11(PowLog2Step10(PowLog2Step9(
        PowLog2Step8(PowLog2Step7(PowLog2Step6(PowLog2Step5(PowLog2Step4(
            PowLog2Step3(PowLog2Step2(PowLog2Step1(PowBinade(Normalised(ax)))))))))))))))

\* the steps of log2(ax) near 1, with t = ax - 1:
\* w = t * t * (0.5 - t * (0.3333333333333333333333 - t * 0.25))
PowNearOneStep1(t) ==
    [t |-> t,
     w |-> DMul(DMul(t, t),
                DSub(Double(Rat(1, 2)),
                     DMul(t, DSub(Double(Rat(1, 3)), DMul(t, Double(Rat(1, 4)))))))]
PowNearOneStep2(s) ==
    s @@ [u |-> DMul(ivln2_h, s.t), v |-> DSub(DMul(s.t, ivln2_l), DMul(s.w, ivln2))]
PowNearOneStep3(s) == s @@ [t1 |-> ClearLowWord(DAdd(s.u, s.v))]
PowNearOneStep4(s) == [t1 |-> s.t1, t2 |-> DSub(s.v, DSub(s.t1, s.u))]

\* log2(ax) as [t1, t2] for ax within 2^-20 of 1, where |y| is 2^31 or more:
\* log(x) by x - x^2/2 + x^3/3 - x^4/4
PowLog2NearOne(ax) ==
    PowNearOneStep4(PowNearOneStep3(PowNearOneStep2(PowNearOneStep1(DSub(ax, DInt(1))))))

\* p_l + p_h = y * log2(ax), with y1 the upper half of y, and z their sum
PowSplit(y, l, y1) ==
    [p_l |-> DAdd(DMul(DSub(y, y1), l.t1), DMul(y, l.t2)), p_h |-> DMul(y1, l.t1)]
PowSummed(s) == s @@ [z |-> DAdd(s.p_l, s.p_h), n |-> 0]
\* overflow (1) where z > 1024, underflow (-1) where z < -1075; j is the high
\* word of z
PowRange(s, j) ==
    IF s.z.sign = 0 /\ j >= 1083179008
    THEN (IF j > 1083179008 \/ ~LowWordIsZero(s.z) THEN 1
          ELSE IF DLess(DSub(s.z, s.p_h), DAdd(s.p_l, ovt)) THEN 1 ELSE 0)
    ELSE IF j >= 1083231232
    THEN (IF j > 1083231232 \/ ~LowWordIsZero(s.z) THEN -1
          ELSE IF ~DLess(DSub(s.z, s.p_h), s.p_l) THEN -1 ELSE 0)
    ELSE 0
\* n = the integer nearest to z, which is taken off p_h
PowNearest(s, j, k) ==
    [s EXCEPT !.n = IF s.z.sign = 1
                    THEN -(((j % 1048576) + 1048576) \div (2 ^ (20 - k)))
                    ELSE ((j % 1048576) + 1048576) \div (2 ^ (20 - k)),
              !.p_h = DSub(s.p_h, FromHighWord(s.z.sign, j - (j % (2 ^ (20 - k)))))]
PowCarried(s, j) == PowNearest(s, j, (j \div 1048576) - 1023)
\* the steps of 2^(p_h + p_l), where i is the high word of |z|
PowExp2Step2(s, i) ==
    IF i > 1071644672
    THEN PowCarried(s, i + (1048576 \div (2 ^ ((i \div 1048576) - 1022))))
    ELSE s
PowExp2Step3(s) == s @@ [t |-> ClearLowWord(DAdd(s.p_l, s.p_h))]
PowExp2Step4(s) ==
    s @@ [u |-> DMul(s.t, lg2_h),
          v |-> DAdd(DMul(DSub(s.p_l, DSub(s.t, s.p_h)), lg2), DMul(s.t, lg2_l))]
PowExp2Step5(s) == [s EXCEPT !.z = DAdd(s.u, s.v)]
PowExp2Step6(s) == [s EXCEPT !.t = DMul(s.z, s.z)] @@ [w |-> DSub(s.v, DSub(s.z, s.u))]
PowExp2Step7(s) == s @@ [t1 |-> DSub(s.z, DMul(s.t, Horner(PowP, 1, s.t)))]
\* r = (z * t1) / ((t1 - two) - (w + z * w)): the last quotient in one division
PowExp2Step8(s) ==
    s @@ [r |-> DDiv(DMul(s.z, s.t1), DSub(DSub(s.t1, DInt(2)), DAdd(s.w, DMul(s.z, s.w))))]
PowExp2Step9(s, sign) == Scalbn([DSub(DInt(1), DSub(s.r, s.z)) EXCEPT !.sign = sign], s.n)
PowRanged(s, sign, range) ==
    IF range = 1 THEN DInfinity(sign)
    ELSE IF range = -1 THEN DZero(sign)
    ELSE PowExp2Step9(PowExp2Step8(PowExp2Step7(PowExp2Step6(PowExp2Step5(PowExp2Step4(
             PowExp2Step3(PowExp2Step2(s, HighWord(s.z)))))))), sign)
PowChecked(s, sign) == PowRanged(s, sign, PowRange(s, HighWord(s.z)))

\* sign * 2^(y * (l.t1 + l.t2)), sign being 0 for + and 1 for -
PowExp2(y, l, sign) == PowChecked(PowSummed(PowSplit(y, l, ClearLowWord(y))), sign)

\* y is an odd integer (1), an even integer (2) or no integer (0)
YIsInt(y) ==
    LET Whole(m) == IF m.half = 1 \/ m.rest THEN 0 ELSE 2 - (m.l % 2)
    IN  IF y.exp > 0 THEN 2
        ELSE IF y.exp <= -Precision THEN 0
        ELSE Whole(ShiftRight(y.hi, y.lo, -y.exp))

\* Math.pow(x, y)
MathPow(x, y) ==
    LET ix == HighWord(x)
        iy == HighWord(y)
        \* the sign of the result: negative for a negative x and an odd y
        sign == IF x.sign = 1 /\ YIsInt(y) = 1 THEN 1 ELSE 0
        ax == [x EXCEPT !.sign = 0]
        Signed(z) == [z EXCEPT !.sign = sign]
    IN  IF DIsZero(y) THEN DInt(1)
        ELSE IF x.class = "nan" \/ y.class = "nan" THEN DNaN
        ELSE IF y.class = "infinite"
        THEN (IF ix = 1072693248 /\ LowWordIsZero(x) THEN DNaN
              ELSE IF ix >= 1072693248 THEN (IF y.sign = 0 THEN y ELSE DZero(0))
              ELSE (IF y.sign = 1 THEN DInfinity(0) ELSE DZero(0)))
        ELSE IF iy = 1072693248 /\ LowWordIsZero(y)
        THEN (IF y.sign = 1 THEN DDiv(DInt(1), x) ELSE x)
        ELSE IF y = DInt(2) THEN DMul(x, x)
        ELSE IF y = Double(Rat(1, 2)) /\ x.sign = 0 THEN DSqrt(x)
        ELSE IF x.class = "infinite" \/ DIsZero(x) \/ ax = DInt(1)
        THEN (IF x.sign = 1 /\ ax = DInt(1) /\ YIsInt(y) = 0 THEN DNaN
              ELSE Signed(IF y.sign = 1 THEN DDiv(DInt(1), ax) ELSE ax))
        ELSE IF x.sign = 1 /\ YIsInt(y) = 0 THEN DNaN
        ELSE IF iy > 1139802112
        THEN (IF ix <= 1072693247
              THEN (IF y.sign = 1 THEN DInfinity(0) ELSE DZero(0))
              ELSE (IF y.sign = 0 THEN DInfinity(0) ELSE DZero(0)))
        ELSE IF iy > 1105199104 /\ ix < 1072693247
        THEN (IF y.sign = 1 THEN DInfinity(sign) ELSE DZero(sign))
        ELSE IF iy > 1105199104 /\ ix > 1072693248
        THEN (IF y.sign = 0 THEN DInfinity(sign) ELSE DZero(sign))
        ELSE PowExp2(y, IF iy > 1105199104 THEN PowLog2NearOne(ax) ELSE PowLog2(ax), sign)

\* the condition of `if (x)` and of `x || y`: null, 0 and NaN are falsy
Truthy(x) == x # Null /\ ~DIsZero(x) /\ x.class # "nan"
\* x || y
Or(x, y) == IF Truthy(x) THEN x ELSE y

\* the whole part of a dropped-bits record m of ShiftRight
RoundFloor(sign, m) == DRound(sign, m.h, m.l, 0, FALSE)
\* the whole part of |x| + (h * 2^28 + l) * 2^x.exp: h and l make half a
\* unit, less one last place for a negative x
RoundRaised(x, h, l) ==
    RoundFloor(x.sign, ShiftRight(x.hi + h + ((x.lo + l) \div Word), (x.lo + l) % Word, -x.exp))

\* Math.round(x): the integer nearest to x, halves upwards; NaN, the
\* infinities and the integers are returned as they are, and a negative x
\* that rounds to zero gives -0
MathRound(x) ==
    IF ~IsFinite(x) \/ DIsZero(x) \/ x.exp >= 0 THEN x
    ELSE IF x.exp < -Precision - 1 THEN DZero(x.sign)
    ELSE RoundRaised(x, IF -x.exp - 1 < 28 THEN 0 ELSE (2 ^ (-x.exp - 29)) - x.sign,
                     IF -x.exp - 1 < 28 THEN (2 ^ (-x.exp - 1)) - x.sign
                     ELSE IF x.sign = 1 THEN Word - 1 ELSE 0)

\* ------------------------------------------------------------- Date
\* a Date is its local calendar day: year, month (0 = January), day of month
IsLeapYear(y) == (y % 4 = 0 /\ y % 100 # 0) \/ y % 400 = 0

DaysInMonth(y, mo) ==
    IF mo = 1 THEN (IF IsLeapYear(y) THEN 29 ELSE 28)
    ELSE IF mo \in {3, 5, 8, 10} THEN 30 ELSE 31

\* the calendar day named by (year, month, day), month being any integer and
\* day 1..31: months carry into the year, days beyond the month's end carry
\* into the next month
MakeDate(y, mo, d) ==
    LET yy == y + (mo \div 12)
        mm == mo % 12
        dim == DaysInMonth(yy, mm)
    IN  IF d > dim THEN [year |-> yy, month |-> mm + 1, day |-> d - dim]
        ELSE [year |-> yy, month |-> mm, day |-> d]

\* date.setMonth(mo)
SetMonth(date, mo) == MakeDate(date.year, mo, date.day)

MonthShort == <<"Jan", "Feb", "Mar", "Apr", "May", "Jun",
                "Jul", "Aug", "Sep", "Oct", "Nov", "Dec">>
\* date.toLocaleDateString('en-US', { year: 'numeric', month: 'short' })
DateLabel(date) == <<MonthShort[date.month + 1], date.year>>

\* ------------------------------------------------------------- generateBacktestData
startValue == 10000

\* 1 + r / 100
GrowthFactor(r) == DAdd(DInt(1), DDiv(r, DInt(100)))

\* truthiness tests in place of the typeof tests: a return of 0 counts as missing
hasEnoughData_truthy(fund5Y, benchmark5YearReturn) ==
    Truthy(fund5Y) /\ IsNumber_truthy(benchmark5YearReturn)

hasEnoughData(fund5Y, benchmark5YearReturn) ==
    IsNumber(fund5Y) /\ IsNumber(benchmark5YearReturn)

\* the number a field of portfolio.metrics holds: the double its numeral
\* denotes, or null
MetricNumber(x) == IF IsNumber(x) THEN Double(x) ELSE x

\* the anchor values of both series (called with both 5-year returns present)
BacktestAnchors(p) ==
    LET \* currentValue / (1 + return / 100), where the return is a number
        Back(value, return) ==
            IF IsNumber(return) THEN DDiv(value, GrowthFactor(return)) ELSE Null
        Placed(fund1Y, fund3Y, pVal_Now, bVal_Now) ==
            [pVal_Start |-> DInt(startValue),
             pVal_Now |-> pVal_Now,
             pVal_Minus1Y |-> Back(pVal_Now, fund1Y),
             pVal_Minus3Y |-> Back(pVal_Now, fund3Y),
             bVal_Start |-> DInt(startValue),
             bVal_Now |-> bVal_Now,
             bVal_Minus1Y |-> Back(bVal_Now, MetricNumber(p.metrics.benchmark1YearReturn)),
             bVal_Minus3Y |-> Back(bVal_Now, MetricNumber(p.metrics.benchmark3YearReturn))]
    IN  Placed(calculateWeightedReturn(p, "oneYearChangePercent"),
               calculateWeightedReturn(p, "threeYearChangePercent"),
               DMul(DInt(startValue),
                    GrowthFactor(calculateWeightedReturn(p, "fiveYearChangePercent"))),
               DMul(DInt(startValue),
                    GrowthFactor(MetricNumber(p.metrics.benchmark5YearReturn))))

\* start * Math.pow(end / start, progress / duration)
Interpolate(start, end, progress, duration) ==
    DMul(start, MathPow(DDiv(end, start), DDiv(DInt(progress), DInt(duration))))

\* the curve a segment follows: its two end values and the fraction
\* progress / duration of the way between them
Curve(start, end, progress, duration) ==
    [start |-> start, end |-> end, progress |-> progress, duration |-> duration]

\* pVal_Start * Math.pow(pVal_Now / pVal_Start, 24 / 60), the start of
\* segment 2 for a series without a 3-year anchor
Month24OfFiveYears(start, now) == Interpolate(start, now, 24, 60)

\* a first segment that counts its months from 1
Segment1_monthsFromOne(m, a) ==
    [p |-> IF Truthy(a.pVal_Minus3Y)
           THEN Curve(a.pVal_Start, a.pVal_Minus3Y, m + 1, 24)
           ELSE Curve(a.pVal_Start, a.pVal_Now, m + 1, 60),
     b |-> IF Truthy(a.bVal_Minus3Y)
           THEN Curve(a.bVal_Start, a.bVal_Minus3Y, m + 1, 24)
           ELSE Curve(a.bVal_Start, a.bVal_Now, m + 1, 60)]

\* Segment 1 (months 0..24): Start -> 3Y ago, or the 5-year curve
Segment1(m, a) ==
    [p |-> IF Truthy(a.pVal_Minus3Y)
           THEN Curve(a.pVal_Start, a.pVal_Minus3Y, m, 24)
           ELSE Curve(a.pVal_Start, a.pVal_Now, m, 60),
     b |-> IF Truthy(a.bVal_Minus3Y)
           THEN Curve(a.bVal_Start, a.bVal_Minus3Y, m, 24)
           ELSE Curve(a.bVal_Start, a.bVal_Now, m, 60)]

\* the anchors of one series: "p" the portfolio's, "b" the benchmark's
SeriesAnchors(a, k) ==
    IF k = "p"
    THEN [Start |-> a.pVal_Start, Now |-> a.pVal_Now,
          Minus1Y |-> a.pVal_Minus1Y, Minus3Y |-> a.pVal_Minus3Y]
    ELSE [Start |-> a.bVal_Start, Now |-> a.bVal_Now,
          Minus1Y |-> a.bVal_Minus1Y, Minus3Y |-> a.bVal_Minus3Y]

\* a second segment that always runs to the "now" value
Segment2_endsNow(m, a) ==
    [k \in {"p", "b"} |->
        Curve(Or(SeriesAnchors(a, k).Minus3Y,
                 Month24OfFiveYears(SeriesAnchors(a, k).Start, SeriesAnchors(a, k).Now)),
              SeriesAnchors(a, k).Now,
              m - 24, 24)]

\* startP, endP (startB, endB) of segment 2 with progress = m - 24 and
\* duration = 24, on the anchors v of the series
Segment2Curve(m, v) ==
    Curve(Or(v.Minus3Y, Month24OfFiveYears(v.Start, v.Now)), Or(v.Minus1Y, v.Now), m - 24, 24)

\* Segment 2 (months 25..48): 3Y ago -> 1Y ago, by the same statements for
\* the portfolio (p) and the benchmark (b)
Segment2(m, a) == [k \in {"p", "b"} |-> Segment2Curve(m, SeriesAnchors(a, k))]

\* a last segment that ends where the second one does
Segment3_endsLikeSegment2(m, a) ==
    LET startP == Or(a.pVal_Minus1Y, Or(a.pVal_Minus3Y, a.pVal_Start))
        endP == Or(a.pVal_Minus1Y, a.pVal_Now)
        startB == Or(a.bVal_Minus1Y, Or(a.bVal_Minus3Y, a.bVal_Start))
        endB == Or(a.bVal_Minus1Y, a.bVal_Now)
        progress == m - 48
        duration == 12
    IN  [p |-> Curve(startP, endP, progress, duration),
         b |-> Curve(startB, endB, progress, duration)]

\* a last segment whose benchmark start falls back to the fund's 3-year anchor
Segment3_crossed(m, a) ==
    LET startP == Or(a.pVal_Minus1Y, Or(a.pVal_Minus3Y, a.pVal_Start))
        endP == a.pVal_Now
        startB == Or(a.bVal_Minus1Y, Or(a.pVal_Minus3Y, a.bVal_Start))
        endB == a.bVal_Now
        progress == m - 48
        duration == 12
    IN  [p |-> Curve(startP, endP, progress, duration),
         b |-> Curve(startB, endB, progress, duration)]

\* Segment 3 (months 49..60): 1Y ago -> Now
Segment3(m, a) ==
    LET startP == Or(a.pVal_Minus1Y, Or(a.pVal_Minus3Y, a.pVal_Start))
        endP == a.pVal_Now
        startB == Or(a.bVal_Minus1Y, Or(a.bVal_Minus3Y, a.bVal_Start))
        endB == a.bVal_Now
        progress == m - 48
        duration == 12
    IN  [p |-> Curve(startP, endP, progress, duration),
         b |-> Curve(startB, endB, progress, duration)]

\* the segment of month m
SegmentOf(m, a) ==
    IF m <= 24 THEN Segment1(m, a)
    ELSE IF m <= 48 THEN Segment2(m, a)
    ELSE Segment3(m, a)

\* the value on a curve: start * Math.pow(end / start, progress / duration)
CurveValue(c) == Interpolate(c.start, c.end, c.progress, c.duration)
ValuePair(v) == [pVal |-> v.p, bVal |-> v.b]

\* pVal and bVal of a month, by the same formula on the month's two curves
SegmentValues(c) == ValuePair([k \in {"p", "b"} |-> CurveValue(c[k])])

\* a loop body that numbers the point by the calendar distance of its date
\* from the reference date
BacktestPoint_byCalendar(m, a, refDate) ==
    LET Pushed(date, v) ==
            [dateObj |-> date,
             dateLabel |-> DateLabel(date),
             year |-> date.year,
             monthIndex |-> 60 - ((12 * refDate.year + refDate.month) - (12 * date.year + date.month)),
             decimalYear |-> DAdd(DInt(date.year), DDiv(DInt(date.month), DInt(12))),
             sp500 |-> MathRound(v.bVal),
             fund |-> MathRound(v.pVal)]
    IN  Pushed(SetMonth(refDate, refDate.month - (60 - m)), SegmentValues(SegmentOf(m, a)))

\* the body of the loop for month m
BacktestPoint(m, a, refDate) ==
    LET Pushed(date, v) ==
            [dateObj |-> date,
             dateLabel |-> DateLabel(date),
             year |-> date.year,
             monthIndex |-> m,
             decimalYear |-> DAdd(DInt(date.year), DDiv(DInt(date.month), DInt(12))),
             sp500 |-> MathRound(v.bVal),
             fund |-> MathRound(v.pVal)]
    IN  Pushed(SetMonth(refDate, refDate.month - (60 - m)), SegmentValues(SegmentOf(m, a)))

\* the months of the loop `for (let m = 0; m <= 60; m++)`
LoopMonths == 0..60

\* the array `data` after the loop on the anchors a
BacktestSeries(a, refDate) ==
    [i \in { m + 1 : m \in LoopMonths } |-> BacktestPoint(i - 1, a, refDate)]

generateBacktestData(p, refDate) ==
    IF ~hasEnoughData(calculateWeightedReturn(p, "fiveYearChangePercent"),
                      p.metrics.benchmark5YearReturn)
    THEN <<>>
    ELSE BacktestSeries(BacktestAnchors(p), refDate)

\* ------------------------------------------------------------- inputs
Keys == {"oneYearChangePercent", "threeYearChangePercent", "fiveYearChangePercent"}

\* allocation weights (percent); they need not sum to 100 over a fund
Weights == {15, 20, 65}

\* the optional observed fields a holding may carry: whole numbers, zero and
\* decimal fractions that no double represents exactly
FieldProfiles ==
    { [oneYearChangePercent |-> Null, threeYearChangePercent |-> R(0),
       fiveYearChangePercent |-> R(6), dividendYieldPercent |-> Rat(201, 200)],
      [oneYearChangePercent |-> Rat(1, 10), threeYearChangePercent |-> Null,
       fiveYearChangePercent |-> R(0), dividendYieldPercent |-> R(0)],
      [oneYearChangePercent |-> Rat(51, 10), threeYearChangePercent |-> R(-5),
       fiveYearChangePercent |-> Null, dividendYieldPercent |-> Null] }

StockPosition ==
    { [weight |-> w,
       oneYearChangePercent |-> f.oneYearChangePercent,
       threeYearChangePercent |-> f.threeYearChangePercent,
       fiveYearChangePercent |-> f.fiveYearChangePercent,
       dividendYieldPercent |-> f.dividendYieldPercent] : w \in Weights, f \in FieldProfiles }

PortfolioMetrics ==
    { [benchmark1YearReturn |-> Null, benchmark3YearReturn |-> Null,
       benchmark5YearReturn |-> Null] }

SeqsUpTo(S, n) == UNION { [1..k -> S] : k \in 0..n }

GeneratedPortfolio ==
    { [positions |-> ps, metrics |-> m] :
        ps \in SeqsUpTo(StockPosition, MaxPositions), m \in PortfolioMetrics }

\* ------------------------------------------------------------- inputs of the backtest
Holding(w, r1, r3, r5) ==
    [weight |-> w, oneYearChangePercent |-> r1, threeYearChangePercent |-> r3,
     fiveYearChangePercent |-> r5, dividendYieldPercent |-> R(2)]

\* a holding of too little weight to cover a field alone
SatelliteHolding == Holding(20, R(60), R(0), R(20))

\* two funds with a 5-year aggregate: with every trailing return, and without
\* a 1-year return
CoreFunds ==
    { <<Holding(65, R(20), R(25), R(50))>>,
      <<Holding(65, Null, R(25), R(50))>> }

\* funds of one holding that covers a field alone, with every combination of
\* present and absent trailing returns, a return of -100% at each horizon,
\* returns of zero, falling values and a 5-year return of 0.185%; the same
\* with the satellite; the satellite alone and the empty fund
BacktestFunds ==
    CoreFunds \cup
    { <<Holding(65, R(20), Null, R(50))>>,
      <<Holding(65, Null, Null, R(50))>>,
      <<Holding(65, R(20), R(25), Null)>>,
      <<Holding(65, R(-100), R(25), R(50))>>,
      <<Holding(65, R(20), R(-100), R(50))>>,
      <<Holding(65, R(20), R(25), R(-100))>>,
      <<Holding(65, R(0), R(0), R(0))>>,
      <<Holding(65, R(-10), R(-20), R(-30))>>,
      <<Holding(65, Null, Null, Rat(37, 200))>>,
      <<Holding(65, R(20), R(25), R(50)), SatelliteHolding>>,
      <<Holding(65, Null, R(25), R(50)), SatelliteHolding>>,
      <<SatelliteHolding>>,
      <<>> }

Benchmark(r1, r3, r5) ==
    [benchmark1YearReturn |-> r1, benchmark3YearReturn |-> r3, benchmark5YearReturn |-> r5]

\* two benchmarks with a 5-year return: with every trailing return, and with
\* no other
CoreBenchmarks ==
    { Benchmark(R(20), R(25), R(50)),
      Benchmark(Null, Null, R(50)) }

\* benchmarks with every combination of present and absent trailing returns,
\* a return of -100% at each horizon, returns of zero, a 1-year anchor below
\* the 3-year anchor, falling values, and "now" values of 10012.5, 10018.5,
\* 12500.5 and 15000.5
BacktestMetrics ==
    CoreBenchmarks \cup
    { Benchmark(R(20), Null, R(50)),
      Benchmark(Null, R(25), R(50)),
      Benchmark(R(20), R(25), Null),
      Benchmark(R(60), R(25), R(50)),
      Benchmark(R(0), R(0), R(0)),
      Benchmark(R(-100), R(25), R(50)),
      Benchmark(R(20), R(-100), R(50)),
      Benchmark(R(20), R(25), R(-100)),
      Benchmark(R(5), Null, Rat(1, 8)),
      Benchmark(R(-10), R(-20), R(-30)),
      Benchmark(Null, R(25), Rat(37, 200)),
      Benchmark(R(20), R(25), Rat(5001, 200)),
      Benchmark(Null, Null, Rat(10001, 200)) }

\* every fund against the core benchmarks, every benchmark against the core funds
BacktestPortfolios ==
    { [positions |-> ps, metrics |-> m] : ps \in BacktestFunds, m \in CoreBenchmarks }
        \cup { [positions |-> ps, metrics |-> m] : ps \in CoreFunds, m \in BacktestMetrics }

ReferenceDates == { MakeDate(2024, 5, 15) }

\* ------------------------------------------------------------- state machine
Returned(op, key, value) == [op |-> op, key |-> key, value |-> value]

\* the calculators are called outside the App component: nothing is stored,
\* displayed or in flight
NoApp ==
    /\ storage = Null
    /\ objectId = 0
    /\ memo = Null
    /\ isGenerating = FALSE
    /\ isRefreshing = FALSE
    /\ isRebalanceModalOpen = FALSE
    /\ error = Null
    /\ selectedStock = Null
    /\ stockAnalysis = Null
    /\ isAnalyzing = FALSE
    /\ pending = <<>>
    /\ refreshes = 0

Init ==
    /\ portfolio \in GeneratedPortfolio
    /\ referenceDate \in ReferenceDates
    /\ ret = Returned("none", "", Null)
    /\ apiKey = ""
    /\ NoApp

CallCalculateWeightedReturn ==
    \E key \in Keys :
        /\ ret' = Returned("calculateWeightedReturn", key, calculateWeightedReturn(portfolio, key))
        /\ UNCHANGED <<portfolio, referenceDate, appVars>>

CallCalculateDividendYield ==
    /\ ret' = Returned("calculateDividendYield", "", calculateDividendYield(portfolio))
    /\ UNCHANGED <<portfolio, referenceDate, appVars>>

CallCalculateProjectedReturn ==
    /\ ret' = Returned("calculateProjectedReturn", "", calculateProjectedReturn(portfolio))
    /\ UNCHANGED <<portfolio, referenceDate, appVars>>

CallEstimateVolatility ==
    /\ ret' = Returned("estimateVolatility", "", estimateVolatility(portfolio))
    /\ UNCHANGED <<portfolio, referenceDate, appVars>>

CallCalculateSharpeRatio ==
    /\ ret' = Returned("calculateSharpeRatio", "", calculateSharpeRatio(portfolio))
    /\ UNCHANGED <<portfolio, referenceDate, appVars>>

CallCalculateAllMetrics ==
    /\ ret' = Returned("calculateAllMetrics", "", calculateAllMetrics(portfolio))
    /\ UNCHANGED <<portfolio, referenceDate, appVars>>

\* setMonth applied to the caller's Date instead of a copy
CallGenerateBacktestData_movesDate ==
    /\ ret' = Returned("generateBacktestData", "", generateBacktestData(portfolio, referenceDate))
    /\ referenceDate' = SetMonth(referenceDate, referenceDate.month - 60)
    /\ UNCHANGED <<portfolio, appVars>>

CallGenerateBacktestData ==
    /\ ret' = Returned("generateBacktestData", "", generateBacktestData(portfolio, referenceDate))
    /\ UNCHANGED <<portfolio, referenceDate, appVars>>

\* the two aggregators
NextAggregators ==
    \/ CallCalculateWeightedReturn
    \/ CallCalculateDividendYield

\* the calculators of one figure
NextCalculators ==
    \/ CallCalculateWeightedReturn
    \/ CallCalculateDividendYield
    \/ CallCalculateProjectedReturn
    \/ CallEstimateVolatility
    \/ CallCalculateSharpeRatio

\* the formatter of the metrics panel
NextMetrics == CallCalculateAllMetrics

\* the reconstructor of the backtest series
NextBacktest == CallGenerateBacktestData

\* every exported function of calculations.ts
Next ==
    \/ CallCalculateWeightedReturn
    \/ CallCalculateDividendYield
    \/ CallCalculateProjectedReturn
    \/ CallEstimateVolatility
    \/ CallCalculateSharpeRatio
    \/ CallCalculateAllMetrics
    \/ CallGenerateBacktestData

\* the calculators on every fund of up to MaxPositions holdings
Spec == Init /\ [][NextCalculators]_vars

\* calculateAllMetrics on the same funds
SpecMetrics == Init /\ [][NextMetrics]_vars

\* generateBacktestData on the funds and benchmarks of the backtest
InitBacktest ==
    /\ portfolio \in BacktestPortfolios
    /\ referenceDate \in ReferenceDates
    /\ ret = Returned("none", "", Null)
    /\ apiKey = ""
    /\ NoApp

SpecBacktest == InitBacktest /\ [][NextBacktest]_vars

\* generateBacktestData for reference dates through a leap year: the 15th,
\* the 30th and the 31st of every month that has one
CalendarDates ==
    { MakeDate(2024, mo, d) : mo \in 0..11, d \in {15, 30, 31} }
        \ { MakeDate(2024, mo, d) : mo \in 0..11, d \in 1..3 }

\* a fund and a benchmark that lack a trailing return each, a fund and a
\* benchmark whose returns are zero, and a fund without a 5-year aggregate
DatedPortfolios ==
    { [positions |-> <<Holding(65, Null, R(25), R(50))>>,
       metrics |-> Benchmark(R(20), Null, R(50))],
      [positions |-> <<Holding(65, R(0), R(0), R(0))>>,
       metrics |-> Benchmark(R(0), R(0), R(0))],
      [positions |-> <<Holding(65, R(20), R(25), Null)>>,
       metrics |-> Benchmark(R(20), R(25), R(50))] }

InitDates ==
    /\ portfolio \in DatedPortfolios
    /\ referenceDate \in CalendarDates
    /\ ret = Returned("none", "", Null)
    /\ apiKey = ""
    /\ NoApp

SpecDates == InitDates /\ [][NextBacktest]_vars

\* every exported function, called in any order on funds with and without
\* a series
CalledPortfolios ==
    { [positions |-> ps, metrics |-> m] :
        ps \in { <<Holding(65, R(20), R(25), R(50)), SatelliteHolding>>,
                 <<Holding(65, R(0), R(0), R(0))>>,
                 <<Holding(20, R(0), R(0), R(0)), Holding(65, R(0), Null, R(0))>>,
                 <<Holding(65, R(20), R(25), Null)>>,
                 <<SatelliteHolding>>,
                 <<>> },
        m \in { Benchmark(R(20), R(25), R(50)), Benchmark(R(0), R(0), R(0)) } }
        \ { [positions |-> <<Holding(65, R(0), R(0), R(0))>>,
             metrics |-> Benchmark(R(20), R(25), R(50))],
            [positions |-> <<Holding(20, R(0), R(0), R(0)), Holding(65, R(0), Null, R(0))>>,
             metrics |-> Benchmark(R(20), R(25), R(50))] }

CalledDates == { MakeDate(2024, 5, 15), MakeDate(2024, 0, 31) }

InitCalls ==
    /\ portfolio \in CalledPortfolios
    /\ referenceDate \in CalledDates
    /\ ret = Returned("none", "", Null)
    /\ apiKey = ""
    /\ NoApp

SpecCalls == InitCalls /\ [][Next]_vars

\* the aggregators on holdings whose weight is zero or negative: the
\* calculators read `pos.weight` without a test of its sign
SignedWeights == {-20, 0, 65}

SignedHoldings ==
    { [weight |-> w,
       oneYearChangePercent |-> f.oneYearChangePercent,
       threeYearChangePercent |-> f.threeYearChangePercent,
       fiveYearChangePercent |-> f.fiveYearChangePercent,
       dividendYieldPercent |-> f.dividendYieldPercent] :
        w \in SignedWeights, f \in FieldProfiles }

InitWeights ==
    /\ portfolio \in { [positions |-> ps, metrics |-> m] :
                          ps \in SeqsUpTo(SignedHoldings, MaxPositions), m \in PortfolioMetrics }
    /\ referenceDate \in ReferenceDates
    /\ ret = Returned("none", "", Null)
    /\ apiKey = ""
    /\ NoApp

SpecWeights == InitWeights /\ [][NextAggregators]_vars

\* ------------------------------------------------------------- refreshPortfolioPrices
\* A value parsed from a JSON answer of the model: a number, null or an
\* omitted key (Null), a string, or an object with the fields of a quote.
Text(s) == [kind |-> "string", text |-> s]
Quote(price, r1, r3, r5) ==
    [kind |-> "object", price |-> price, oneYearChange |-> r1,
     threeYearChange |-> r3, fiveYearChange |-> r5]
NoData == [k \in {} |-> Null]

\* the condition of `if (data)`, `!data` and `a || b` on a parsed value
TruthyJson(v) ==
    CASE v.kind = "null" -> FALSE
      [] v.kind = "string" -> v.text # ""
      [] v.kind = "number" -> v.n # 0
      [] OTHER -> TRUE

\* data.field: undefined on a value that is not an object
Field(data, f) == IF data.kind = "object" THEN data[f] ELSE Null

\* record[key]: undefined for a key the record does not have
Get(record, key) == IF key \in DOMAIN record THEN record[key] ELSE Null

\* ticker.toUpperCase() on the tickers of the model
ToUpperCase(ticker) == IF ticker = "nee" THEN "NEE" ELSE ticker

\* allMarketData[ticker] || allMarketData[ticker.toUpperCase()]
Lookup(allMarketData, ticker) ==
    IF TruthyJson(Get(allMarketData, ticker))
    THEN Get(allMarketData, ticker)
    ELSE Get(allMarketData, ToUpperCase(ticker))

\* Object.assign(target, source): the entry of a key of the source replaces
\* the whole entry of the target
ObjectAssign(target, source) ==
    [k \in DOMAIN target \cup DOMAIN source |->
        IF k \in DOMAIN source THEN source[k] ELSE target[k]]

batchSize == 4

Min(a, b) == IF a < b THEN a ELSE b

\* the slices `slice(i, i + batchSize)` for i = 0, batchSize, ...
Batches(tickers) ==
    [b \in 1..((Len(tickers) + batchSize - 1) \div batchSize) |->
        SubSeq(tickers, (b - 1) * batchSize + 1, Min(b * batchSize, Len(tickers)))]

\* the filter of the repair pass
IsMissing(allMarketData, ticker) ==
    LET data == Lookup(allMarketData, ticker) IN
    ~TruthyJson(data) \/ ~IsNumber(Field(data, "fiveYearChange"))

TickersOf(positions) == [i \in 1..Len(positions) |-> positions[i].ticker]

\* positions.filter(...).map(p => p.ticker), from position i on
RECURSIVE MissingFrom(_, _, _)
MissingFrom(tickers, i, allMarketData) ==
    IF i > Len(tickers) THEN <<>>
    ELSE (IF IsMissing(allMarketData, tickers[i]) THEN <<tickers[i]>> ELSE <<>>)
            \o MissingFrom(tickers, i + 1, allMarketData)

\* a merge that takes the fetched value whatever its type
MergePosition_overwrites(pos, data) ==
    IF TruthyJson(data)
    THEN [pos EXCEPT
            !.currentPrice = Field(data, "price"),
            !.oneYearChangePercent = Field(data, "oneYearChange"),
            !.threeYearChangePercent = Field(data, "threeYearChange"),
            !.fiveYearChangePercent = Field(data, "fiveYearChange")]
    ELSE pos

\* the body of the map of step 5
MergePosition(pos, data) ==
    IF TruthyJson(data)
    THEN [pos EXCEPT
            !.currentPrice =
                IF IsNumber(Field(data, "price")) THEN Field(data, "price") ELSE pos.currentPrice,
            !.oneYearChangePercent =
                IF IsNumber(Field(data, "oneYearChange"))
                THEN Field(data, "oneYearChange") ELSE pos.oneYearChangePercent,
            !.threeYearChangePercent =
                IF IsNumber(Field(data, "threeYearChange"))
                THEN Field(data, "threeYearChange") ELSE pos.threeYearChangePercent,
            !.fiveYearChangePercent =
                IF IsNumber(Field(data, "fiveYearChange"))
                THEN Field(data, "fiveYearChange") ELSE pos.fiveYearChangePercent,
            !.dayChangePercent = pos.dayChangePercent]
    ELSE pos

\* `if (benchmarkData) { if (typeof ... === 'number') portfolio.metrics... = ... }`
MergeBenchmark(metrics, benchmarkData) ==
    IF TruthyJson(benchmarkData)
    THEN [metrics EXCEPT
            !.benchmark1YearReturn =
                IF IsNumber(Field(benchmarkData, "oneYearChange"))
                THEN Field(benchmarkData, "oneYearChange") ELSE @,
            !.benchmark3YearReturn =
                IF IsNumber(Field(benchmarkData, "threeYearChange"))
                THEN Field(benchmarkData, "threeYearChange") ELSE @,
            !.benchmark5YearReturn =
                IF IsNumber(Field(benchmarkData, "fiveYearChange"))
                THEN Field(benchmarkData, "fiveYearChange") ELSE @]
    ELSE metrics

\* What the market-data service answers.  fetchStockBatch(batch) returns the
\* object parsed from the answer, a record of values by key; the answer is one
\* of a few shapes.
AnswerShapes == {"none", "all", "partial", "upperCase"}

fetchStockBatch(batch, shape) ==
    CASE shape = "all" ->
            \* every ticker of the batch, with every field
            [k \in {batch[i] : i \in 1..Len(batch)} |->
                Quote(R(75), R(30), R(40), R(80))]
      [] shape = "partial" ->
            \* the first ticker, without a 5-year return and with a string for
            \* the 3-year return; in a longer batch also the last ticker, with
            \* a string in place of the quote
            [k \in {batch[1], batch[Len(batch)]} |->
                IF k = batch[1] THEN Quote(R(75), R(30), Text("N/A"), Null)
                ELSE Text("N/A")]
      [] shape = "upperCase" ->
            \* the first ticker under its upper-case key, the 5-year return
            \* only; the number 0 under the last ticker where that is
            \* another key
            [k \in {ToUpperCase(batch[1]), batch[Len(batch)]} |->
                IF k = ToUpperCase(batch[1]) THEN Quote(Null, Null, Null, R(90))
                ELSE R(0)]
      \* `{}`: no JSON in the answer, or the request failed (lines 331-338)
      [] OTHER -> NoData

\* what fetchBenchmarkData returns
BenchmarkAnswers ==
    { Quote(Null, Null, Null, Null),
      Quote(Null, R(12), R(35), R(85)),
      Quote(Null, R(12), Null, Text("N/A")) }

\* A call of refreshPortfolioPrices that has passed the API key test and is
\* suspended at an await: its local variables.  `tickers` are the tickers of
\* `positions`, the array read at the start; phase and batch tell which
\* answer is awaited.  firstPass and retryData record what the two passes
\* returned (allMarketData at line 411, and the retry answers assigned
\* together).  target is the identity of the portfolio object and argument
\* its content at the start, for a call whose object the caller does not hold.
RefreshCall(handler, target, argument, tickers) ==
    [call |-> "refreshPortfolioPrices", handler |-> handler, target |-> target,
     argument |-> argument, tickers |-> tickers,
     phase |-> IF Len(tickers) = 0 THEN "benchmark" ELSE "first", batch |-> 1,
     allMarketData |-> NoData, benchmarkData |-> Null,
     firstPass |-> NoData, retryData |-> NoData, missing |-> <<>>]

\* the batch whose answer the call awaits
AwaitedBatch(c) ==
    Batches(IF c.phase = "first" THEN c.tickers ELSE c.missing)[c.batch]

\* `Object.assign(allMarketData, await fetchStockBatch(batch))` and the step
\* of the loop, in the first pass (lines 403-407) and in the repair pass
\* (lines 427-430)
AfterStockBatch(c, batchData) ==
    LET data == ObjectAssign(c.allMarketData, batchData)
        last == c.batch = Len(Batches(IF c.phase = "first" THEN c.tickers ELSE c.missing))
    IN  IF c.phase = "first"
        THEN [c EXCEPT !.allMarketData = data,
                       !.batch = IF last THEN 1 ELSE @ + 1,
                       !.phase = IF last THEN "benchmark" ELSE @]
        ELSE [c EXCEPT !.allMarketData = data,
                       !.retryData = ObjectAssign(@, batchData),
                       !.batch = IF last THEN 1 ELSE @ + 1,
                       !.phase = IF last THEN "merge" ELSE @]

\* `benchmarkData = await fetchBenchmarkData()` and the filter of the repair
\* pass (lines 411-424)
AfterBenchmarkData(c, benchmarkData) ==
    LET missing == MissingFrom(c.tickers, 1, c.allMarketData) IN
    [c EXCEPT !.benchmarkData = benchmarkData,
              !.firstPass = c.allMarketData,
              !.missing = missing,
              !.batch = 1,
              !.phase = IF Len(missing) > 0 THEN "retry" ELSE "merge"]

\* step 5 and the benchmark (lines 443-465) on the portfolio object as it is
\* when the last answer arrives
MergeInto(p, c) ==
    [p EXCEPT
        !.positions = [i \in 1..Len(p.positions) |->
                          MergePosition(p.positions[i],
                                        Lookup(c.allMarketData, p.positions[i].ticker))],
        !.metrics = MergeBenchmark(p.metrics, c.benchmarkData)]

\* a sequence of refreshes of one portfolio object
Position(ticker, w, price, r1, r3, r5) ==
    [ticker |-> ticker, weight |-> w, currentPrice |-> price, dayChangePercent |-> Null,
     oneYearChangePercent |-> r1, threeYearChangePercent |-> r3,
     fiveYearChangePercent |-> r5, dividendYieldPercent |-> R(2)]

\* a fund of two holdings, one of them without market data yet, and a fund of
\* one holding without benchmark
ConstructedPortfolios ==
    { [positions |-> <<Position("nee", 65, R(70), R(20), R(25), R(50)),
                       Position("MSFT", 20, Null, Null, Null, Null)>>,
       metrics |-> Benchmark(R(20), R(25), R(50))],
      [positions |-> <<Position("MSFT", 65, R(400), R(60), R(0), R(20))>>,
       metrics |-> Benchmark(Null, Null, Null)] }

\* and a fund of five holdings, fetched in two batches
StoredPortfolios ==
    ConstructedPortfolios \cup
    { [positions |-> <<Position("AAPL", 20, R(180), R(10), Null, R(100)),
                       Position("MSFT", 20, R(400), R(60), R(0), R(20)),
                       Position("ENPH", 20, Null, Null, Null, Null),
                       Position("FSLR", 20, R(150), Null, Null, Null),
                       Position("nee", 20, R(70), R(20), R(25), R(50))>>,
       metrics |-> Benchmark(R(20), R(25), R(50))] }

\* `process.env.API_KEY || ''`
ApiKeys == {"", "key"}

InFlight(call) == { k \in 1..Len(pending) : pending[k].call = call }
Settle(k) == SubSeq(pending, 1, k - 1) \o SubSeq(pending, k + 1, Len(pending))

InitRefresh ==
    /\ portfolio \in StoredPortfolios
    /\ referenceDate \in ReferenceDates
    /\ ret = Returned("none", "", Null)
    /\ apiKey \in ApiKeys
    /\ NoApp

\* refreshPortfolioPrices(portfolio) up to its first await, or to its throw
CallRefreshPortfolioPrices ==
    /\ Len(pending) < MaxInFlight
    /\ refreshes < MaxRefreshes
    /\ refreshes' = refreshes + 1
    /\ IF apiKey = ""
       THEN /\ ret' = Returned("refreshPortfolioPrices", "",
                               [threw |-> Text("API Key is missing")])
            /\ UNCHANGED pending
       ELSE /\ pending' = Append(pending,
                                 RefreshCall("", objectId, Null, TickersOf(portfolio.positions)))
            /\ ret' = Returned("refreshPortfolioPrices", "", [promise |-> Text("pending")])
    /\ UNCHANGED <<portfolio, referenceDate, apiKey, storage, objectId, memo, isGenerating,
                   isRefreshing, isRebalanceModalOpen, error, selectedStock, stockAnalysis,
                   isAnalyzing>>

\* JSON.stringify writes null for a number that is not finite
JsonNumber(x) == IF IsNumber(x) /\ x.d = 0 THEN Null ELSE x

JSONStringify(p) ==
    [kind |-> "string",
     json |-> [positions |->
                  [i \in 1..Len(p.positions) |->
                      [f \in DOMAIN p.positions[i] |->
                          IF f \in {"ticker", "weight"}
                          THEN p.positions[i][f]
                          ELSE JsonNumber(p.positions[i][f])]],
               metrics |-> [f \in DOMAIN p.metrics |-> JsonNumber(p.metrics[f])]]]

\* a stored text that JSON.parse rejects
Unparsable == Text("{")

\* the mount effect: `if (saved) { try { setPortfolio(JSON.parse(saved)) } catch ... }`
LoadSaved(saved) ==
    IF saved # Null /\ "json" \in DOMAIN saved THEN saved.json ELSE Null

\* PerformanceComparison: `useMemo(() => generateBacktestData(portfolio), [portfolio])`,
\* rendered only while there is a portfolio.  The cell keeps the identity of
\* the object it was computed for and the portfolio it was computed from,
\* as that object was then; the series it holds is backtestData of the cell.
Render(cell, p, id, now) ==
    IF p = Null THEN Null
    ELSE IF cell # Null /\ cell.deps = id THEN cell
    ELSE [deps |-> id, source |-> p, now |-> now]

\* the series the cell holds
backtestData(cell) == generateBacktestData(cell.source, cell.now)

\* the identity of a newly created object
FreshId ==
    LET used == {objectId} \cup { pending[k].target : k \in InFlight("refreshPortfolioPrices") }
                    \cup (IF memo = Null THEN {} ELSE {memo.deps})
    IN  CHOOSE k \in 1..(MaxInFlight + 3) : k \notin used /\ \A j \in 1..(k - 1) : j \in used

\* setPortfolio(updatedPortfolio): the object refreshPortfolioPrices returned
SpreadCopy_sameObject(id, fresh) == id

\* the identity of `{ ...updatedPortfolio }`
SpreadCopy(id, fresh) == fresh

\* The last answer of a call has arrived and the call is at c: it waits for
\* the next answer or, after the last, merges and returns (lines 443-467);
\* the promise of a call of handleRefresh resolves into the rest of its try
\* and finally blocks in the same turn.
RefreshMoves(k, c) ==
    /\ IF c.phase # "merge"
       THEN /\ pending' = [pending EXCEPT ![k] = c]
            /\ UNCHANGED <<portfolio, ret, storage, objectId, memo, isRefreshing>>
       ELSE IF c.handler = ""
       THEN /\ portfolio' = MergeInto(portfolio, c)
            /\ pending' = Settle(k)
            /\ ret' = Returned("refreshPortfolioPrices", "",
                               [call |-> c, result |-> MergeInto(portfolio, c)])
            /\ UNCHANGED <<storage, objectId, memo, isRefreshing>>
       ELSE LET updatedPortfolio == MergeInto(c.argument, c)
                id == SpreadCopy(c.target, FreshId)
            IN  /\ portfolio' = updatedPortfolio
                /\ objectId' = id
                /\ memo' = Render(memo, updatedPortfolio, id, referenceDate)
                /\ storage' = JSONStringify(updatedPortfolio)
                /\ isRefreshing' = FALSE
                /\ pending' = Settle(k)
                /\ ret' = Returned("refreshPortfolioPrices", "handleRefresh",
                                   [argument |-> c.argument, result |-> updatedPortfolio])
    /\ UNCHANGED <<referenceDate, apiKey, refreshes, isGenerating, isRebalanceModalOpen, error,
                   selectedStock, stockAnalysis, isAnalyzing>>

\* an answer of fetchStockBatch arrives (it never rejects: lines 335-338)
FetchStockBatchReturns ==
    \E k \in InFlight("refreshPortfolioPrices") :
        /\ pending[k].phase \in {"first", "retry"}
        /\ \E shape \in AnswerShapes :
               RefreshMoves(k, AfterStockBatch(pending[k],
                                   fetchStockBatch(AwaitedBatch(pending[k]), shape)))

\* the answer of fetchBenchmarkData arrives (it never rejects: lines 374-377)
FetchBenchmarkDataReturns ==
    \E k \in InFlight("refreshPortfolioPrices") :
        /\ pending[k].phase = "benchmark"
        /\ \E benchmarkData \in BenchmarkAnswers :
               RefreshMoves(k, AfterBenchmarkData(pending[k], benchmarkData))

NextRefresh ==
    \/ CallRefreshPortfolioPrices
    \/ FetchStockBatchReturns
    \/ FetchBenchmarkDataReturns

SpecRefresh == InitRefresh /\ [][NextRefresh]_vars

\* ------------------------------------------------------------- App
\* The App component: its state, the 'climateshift-portfolio' entry of
\* localStorage, the calls in flight and the series that
\* PerformanceComparison keeps in useMemo.  An object is known by a number
\* (objectId, 0 for null): useMemo and setState compare objects by identity.
\* A step is one turn of the event loop: a handler up to its first await
\* (through its catch and finally blocks when the call throws at once), or
\* the arrival of an answer with everything that follows it up to the next
\* await.  The progress text and the headlines are not modelled.
InitApp ==
    /\ storage \in {Null, Unparsable} \cup { JSONStringify(p) : p \in ConstructedPortfolios }
    /\ portfolio = LoadSaved(storage)
    /\ objectId = IF portfolio = Null THEN 0 ELSE 1
    /\ referenceDate \in ReferenceDates
    /\ memo = Render(Null, portfolio, objectId, referenceDate)
    /\ ret = Returned("none", "", Null)
    /\ apiKey \in ApiKeys
    /\ isGenerating = FALSE
    /\ isRefreshing = FALSE
    /\ isRebalanceModalOpen = FALSE
    /\ error = Null
    /\ selectedStock = Null
    /\ stockAnalysis = Null
    /\ isAnalyzing = FALSE
    /\ pending = <<>>
    /\ refreshes = 0

\* ControlPanel: `hasPortfolio && onClear && !isGenerating`
ClearButtonShown == portfolio # Null /\ ~isGenerating
\* ControlPanel: `hasPortfolio && onRefresh && !isGenerating`, `disabled={isRefreshing}`
RefreshButtonEnabled == portfolio # Null /\ ~isGenerating /\ ~isRefreshing
\* ControlPanel: the button of `isGenerating ? ... : <button disabled={isRefreshing}>`
ActionButtonEnabled == ~isGenerating /\ ~isRefreshing
\* StockTable: the rows are shown with a portfolio and answer to the pointer
\* only, which the overlay of an open modal (fixed inset-0) intercepts; the
\* buttons of the ControlPanel stay reachable with the keyboard
RowsClickable == portfolio # Null /\ ~isRebalanceModalOpen /\ selectedStock = Null

modalVars == <<selectedStock, stockAnalysis, isAnalyzing>>

\* what the catch block of handleConstruct and handleConfirmRebalance shows
\* for an error thrown after the API key test: err.message, or the text of
\* the handler when the message is empty
GenerateErrors(handler) ==
    { Text("No data returned from Gemini for structure"),
      Text("fetch failed"),
      Text("Unexpected end of JSON input"),
      IF handler = "handleConstruct"
      THEN Text("Failed to generate portfolio. Please check your API key.")
      ELSE Text("Failed to rebalance portfolio. Please check your API key.") }

\* generateETFPortfolio called from a handler: without API key it throws at
\* once and the catch and finally blocks run in the same turn
StartGenerate(handler) ==
    IF apiKey = ""
    THEN /\ error' = Text("API Key is missing")
         /\ UNCHANGED <<isGenerating, pending>>
    ELSE /\ error' = Null
         /\ isGenerating' = TRUE
         /\ pending' = Append(pending, [call |-> "generateETFPortfolio", handler |-> handler])

handleConstruct ==
    /\ ActionButtonEnabled /\ portfolio = Null
    /\ Len(pending) < MaxInFlight
    /\ StartGenerate("handleConstruct")
    /\ UNCHANGED <<portfolio, referenceDate, ret, apiKey, refreshes, storage, objectId, memo, isRefreshing,
                   isRebalanceModalOpen, modalVars>>

handleRebalanceRequest ==
    /\ ActionButtonEnabled /\ portfolio # Null
    /\ isRebalanceModalOpen' = TRUE
    /\ UNCHANGED <<portfolio, referenceDate, ret, apiKey, refreshes, storage, objectId, memo, isGenerating,
                   isRefreshing, error, modalVars, pending>>

\* RebalanceModal: `onClose={() => setIsRebalanceModalOpen(false)}`
CloseRebalanceModal ==
    /\ isRebalanceModalOpen
    /\ isRebalanceModalOpen' = FALSE
    /\ UNCHANGED <<portfolio, referenceDate, ret, apiKey, refreshes, storage, objectId, memo, isGenerating,
                   isRefreshing, error, modalVars, pending>>

handleConfirmRebalance ==
    /\ isRebalanceModalOpen
    /\ Len(pending) < MaxInFlight
    /\ isRebalanceModalOpen' = FALSE
    /\ StartGenerate("handleConfirmRebalance")
    /\ UNCHANGED <<portfolio, referenceDate, ret, apiKey, refreshes, storage, objectId, memo, isRefreshing,
                   modalVars>>

\* generateETFPortfolio resolves: the rest of handleConstruct or of
\* handleConfirmRebalance
GenerateFulfilled ==
    \E k \in InFlight("generateETFPortfolio"), result \in ConstructedPortfolios :
        /\ portfolio' = result
        /\ objectId' = FreshId
        /\ memo' = Render(memo, result, FreshId, referenceDate)
        /\ storage' = JSONStringify(result)
        /\ isGenerating' = FALSE
        /\ pending' = Settle(k)
        /\ ret' = Returned("generateETFPortfolio", pending[k].handler, [result |-> result])
        /\ UNCHANGED <<referenceDate, apiKey, refreshes, isRefreshing, isRebalanceModalOpen, error,
                       modalVars>>

\* generateETFPortfolio rejects: the catch and finally blocks
GenerateRejected ==
    \E k \in InFlight("generateETFPortfolio") :
        \E message \in GenerateErrors(pending[k].handler) :
            /\ error' = message
            /\ isGenerating' = FALSE
            /\ pending' = Settle(k)
            /\ UNCHANGED <<portfolio, referenceDate, ret, apiKey, refreshes, storage, objectId, memo,
                           isRefreshing, isRebalanceModalOpen, modalVars>>

\* handleRefresh up to the first await of refreshPortfolioPrices, which holds
\* the portfolio object of the state; without API key the call throws at
\* once and the catch and finally blocks run in the same turn
handleRefresh ==
    /\ RefreshButtonEnabled
    /\ portfolio # Null
    /\ Len(pending) < MaxInFlight
    /\ refreshes < MaxRefreshes
    /\ refreshes' = refreshes + 1
    /\ IF apiKey = ""
       THEN /\ error' = Text("Failed to refresh prices. Please try again.")
            /\ UNCHANGED <<isRefreshing, pending>>
       ELSE /\ error' = Null
            /\ isRefreshing' = TRUE
            /\ pending' = Append(pending,
                                 RefreshCall("handleRefresh", objectId, portfolio,
                                             TickersOf(portfolio.positions)))
    /\ UNCHANGED <<portfolio, referenceDate, ret, apiKey, storage, objectId, memo, isGenerating,
                   isRebalanceModalOpen, modalVars>>

handleClearPortfolio ==
    /\ ClearButtonShown
    /\ storage' = Null
    /\ portfolio' = Null
    /\ objectId' = 0
    /\ memo' = Null
    /\ UNCHANGED <<referenceDate, ret, apiKey, refreshes, isGenerating, isRefreshing, isRebalanceModalOpen,
                   error, modalVars, pending>>

NextApp ==
    \/ handleConstruct
    \/ handleRebalanceRequest
    \/ CloseRebalanceModal
    \/ handleConfirmRebalance
    \/ GenerateFulfilled
    \/ GenerateRejected
    \/ handleRefresh
    \/ FetchStockBatchReturns
    \/ FetchBenchmarkDataReturns
    \/ handleClearPortfolio

SpecApp == InitApp /\ [][NextApp]_vars

\* ------------------------------------------------------------- the stock detail modal
\* The App with a portfolio on display: a click on a row of the StockTable
\* selects the position and asks analyzeStock for its ticker; the modal
\* covers the page until it is closed.  The calls that were not answered yet
\* stay in flight when the modal is closed.
InitModal ==
    /\ storage \in { JSONStringify(p) : p \in StoredPortfolios }
    /\ portfolio = LoadSaved(storage)
    /\ objectId = 1
    /\ referenceDate \in ReferenceDates
    /\ memo = Render(Null, portfolio, objectId, referenceDate)
    /\ ret = Returned("none", "", Null)
    /\ apiKey \in ApiKeys
    /\ isGenerating = FALSE
    /\ isRefreshing = FALSE
    /\ isRebalanceModalOpen = FALSE
    /\ error = Null
    /\ selectedStock = Null
    /\ stockAnalysis = Null
    /\ isAnalyzing = FALSE
    /\ pending = <<>>
    /\ refreshes = 0

\* what analyzeStock resolves to: the answer to the prompt
\* `Find real-time financial data for ${ticker}`, known by its ticker
StockAnalysisResult(ticker) == [kind |-> "object", content |-> Text(ticker)]

\* handleSelectStock up to its await; without API key analyzeStock throws at
\* once and the catch and finally blocks run in the same turn
handleSelectStock ==
    /\ RowsClickable
    /\ Len(pending) < MaxInFlight
    /\ \E i \in 1..Len(portfolio.positions) :
        LET stock == portfolio.positions[i] IN
        /\ selectedStock' = stock
        /\ stockAnalysis' = Null
        /\ IF apiKey = ""
           THEN UNCHANGED <<isAnalyzing, pending>>
           ELSE /\ isAnalyzing' = TRUE
                /\ pending' = Append(pending, [call |-> "analyzeStock",
                                               handler |-> "handleSelectStock",
                                               ticker |-> stock.ticker])
    /\ UNCHANGED <<portfolio, referenceDate, ret, apiKey, refreshes, storage, objectId, memo, isGenerating,
                   isRefreshing, isRebalanceModalOpen, error>>

\* analyzeStock resolves: the rest of the try block and the finally block
AnalyzeFulfilled ==
    \E k \in InFlight("analyzeStock") :
        LET result == StockAnalysisResult(pending[k].ticker) IN
        /\ stockAnalysis' = result
        /\ isAnalyzing' = FALSE
        /\ pending' = Settle(k)
        /\ ret' = Returned("analyzeStock", "handleSelectStock",
                           [ticker |-> Text(pending[k].ticker), result |-> result])
        /\ UNCHANGED <<portfolio, referenceDate, apiKey, refreshes, storage, objectId, memo, isGenerating,
                       isRefreshing, isRebalanceModalOpen, error, selectedStock>>

\* analyzeStock rejects: the catch and finally blocks
AnalyzeRejected ==
    \E k \in InFlight("analyzeStock") :
        /\ isAnalyzing' = FALSE
        /\ pending' = Settle(k)
        /\ UNCHANGED <<portfolio, referenceDate, ret, apiKey, refreshes, storage, objectId, memo,
                       isGenerating, isRefreshing, isRebalanceModalOpen, error, selectedStock,
                       stockAnalysis>>

handleCloseModal ==
    /\ selectedStock # Null
    /\ selectedStock' = Null
    /\ stockAnalysis' = Null
    /\ UNCHANGED <<portfolio, referenceDate, ret, apiKey, refreshes, storage, objectId, memo, isGenerating,
                   isRefreshing, isRebalanceModalOpen, error, isAnalyzing, pending>>

NextModal ==
    \/ handleSelectStock
    \/ AnalyzeFulfilled
    \/ AnalyzeRejected
    \/ handleCloseModal

SpecModal == InitModal /\ [][NextModal]_vars

\* ------------------------------------------------------------- the claims' vocabulary
Present(x) == x # Null

\* the holdings (indices) that carry the field
Carrying(ps, key) == { i \in 1..Len(ps) : Present(ps[i][key]) }

RECURSIVE WeightOf(_, _)
WeightOf(ps, S) ==
    IF S = {} THEN 0
    ELSE LET i == CHOOSE j \in S : TRUE IN ps[i].weight + WeightOf(ps, S \ {i})

coveredWeight(ps, key) == WeightOf(ps, Carrying(ps, key))

\* sum over S of weight_i / 100 * value_i
RECURSIVE WeightedSumOver(_, _, _)
WeightedSumOver(ps, key, S) ==
    IF S = {} THEN R(0)
    ELSE LET i == CHOOSE j \in S : TRUE IN
         RAdd(RMul(Rat(ps[i].weight, 100), ps[i][key]), WeightedSumOver(ps, key, S \ {i}))

\* (sum of weight_i / 100 * value_i) / coveredWeight * 100 over the holdings S
Renormalised(ps, key, S) ==
    RMul(RDiv(WeightedSumOver(ps, key, S), R(WeightOf(ps, S))), R(100))

\* the aggregate of section 4.1 as the specification states it
Aggregate(ps, key) ==
    IF coveredWeight(ps, key) > 50 THEN Renormalised(ps, key, Carrying(ps, key)) ELSE Null

\* the double f is the real number x up to the rounding of a few operations:
\* |f - x| <= (1 + |x|) / 2^40
Near(f, x) ==
    /\ IsFinite(f)
    /\ LET shift == Max(-f.exp, 0)
           magnitude == BigMul(BigShl(Mantissa(f), Max(f.exp, 0)), BigOfInt(x.d))
           target == BigShl(BigOfInt(Abs(x.n)), shift)
           sameSign == (f.sign = 1) = (x.n < 0)
           distance == IF ~sameSign THEN BigAdd(magnitude, target)
                       ELSE IF BigCmp(magnitude, target) >= 0 THEN BigSub(magnitude, target)
                       ELSE BigSub(target, magnitude)
           allowance == BigAdd(BigShl(BigOfInt(x.d), shift), target)
       IN  BigCmp(BigShl(distance, 40), allowance) <= 0

\* a is not greater than b
DLeq(a, b) == ~DLess(b, a)

\* sum of weight_i / 100 * value_i over the holdings of S among the first i,
\* added in the order of the holdings in the program's arithmetic
RECURSIVE SumInOrder(_, _, _, _)
SumInOrder(ps, key, S, i) ==
    IF i = 0 THEN DInt(0)
    ELSE IF i \in S
         THEN DAdd(SumInOrder(ps, key, S, i - 1),
                   DMul(DDiv(DInt(ps[i].weight), DInt(100)), Double(ps[i][key])))
         ELSE SumInOrder(ps, key, S, i - 1)

\* (sum of weight_i / 100 * value_i) / weight * 100 in the program's arithmetic
RenormalisedInOrder(ps, key, S, weight) ==
    DMul(DDiv(SumInOrder(ps, key, S, Len(ps)), DInt(weight)), DInt(100))

Without(ps, i) == SubSeq(ps, 1, i - 1) \o SubSeq(ps, i + 1, Len(ps))
Reweighted(ps, i, w) == [ps EXCEPT ![i].weight = w]
WithPositions(p, ps) == [p EXCEPT !.positions = ps]

\* ------------------------------------------------------------- claims
\* C1: calculateWeightedReturn returns null exactly when the summed weight of
\* the holdings that carry the field is <= 50 and a number exactly when it is
\* > 50, for each of the three fields; a coverage of exactly 50 yields null.
C1_GateIsStrict ==
    ret.op = "calculateWeightedReturn" =>
        LET cov == coveredWeight(portfolio.positions, ret.key) IN
        /\ (ret.value = Null) <=> (cov <= 50)
        /\ Present(ret.value) <=> (cov > 50)

C1_Witness ==
    /\ ret.op = "calculateWeightedReturn"
    /\ coveredWeight(portfolio.positions, ret.key) = 50
    /\ ret.value = Null

\* C2: when coveredWeight > 50 the result is (sum of weight_i/100 * value_i) /
\* coveredWeight * 100 over the covered holdings only (evaluated in doubles,
\* and so the real value of that expression up to rounding); removing,
\* re-weighting or adding a holding without the field leaves the result
\* unchanged.
C2_RenormalisedOverCovered ==
    (ret.op = "calculateWeightedReturn" /\ coveredWeight(portfolio.positions, ret.key) > 50) =>
        LET ps == portfolio.positions
            key == ret.key
        IN  /\ ret.value = RenormalisedInOrder(ps, key, Carrying(ps, key), coveredWeight(ps, key))
            /\ Near(ret.value, Renormalised(ps, key, Carrying(ps, key)))
            /\ \A i \in 1..Len(ps) : ~Present(ps[i][key]) =>
                   /\ calculateWeightedReturn(WithPositions(portfolio, Without(ps, i)), key)
                          = ret.value
                   /\ \A w \in Weights :
                          calculateWeightedReturn(
                              WithPositions(portfolio, Reweighted(ps, i, w)), key) = ret.value
            /\ \A pos \in StockPosition : ~Present(pos[key]) =>
                   calculateWeightedReturn(WithPositions(portfolio, Append(ps, pos)), key)
                       = ret.value

C2_Witness ==
    /\ ret.op = "calculateWeightedReturn"
    /\ coveredWeight(portfolio.positions, ret.key) > 50
    /\ \E i \in 1..Len(portfolio.positions) : ~Present(portfolio.positions[i][ret.key])
    /\ \E i, j \in Carrying(portfolio.positions, ret.key) :
           portfolio.positions[i][ret.key] # portfolio.positions[j][ret.key]
    /\ Present(ret.value)

\* C3: the gate of calculateWeightedReturn passes exactly when the holdings
\* that carry the field account for more than half of the fund's total weight
\* (the sum of the weights of all holdings), whatever that total is.
C3_MoreThanHalfOfTotal ==
    ret.op = "calculateWeightedReturn" =>
        LET ps == portfolio.positions IN
        Present(ret.value) <=> (2 * coveredWeight(ps, ret.key) > WeightOf(ps, 1..Len(ps)))

\* C4: zero is data: a holding whose field is 0 counts toward coveredWeight and
\* adds 0 to the weighted sum, and an aggregate of 0 is returned as the number
\* 0, not null; for calculateWeightedReturn and calculateDividendYield.
C4_ZeroIsData ==
    ret.op \in {"calculateWeightedReturn", "calculateDividendYield"} =>
        LET ps == portfolio.positions
            key == IF ret.op = "calculateWeightedReturn" THEN ret.key ELSE "dividendYieldPercent"
            zero == { i \in 1..Len(ps) : ps[i][key] = R(0) }
            nonzero == { i \in 1..Len(ps) : Present(ps[i][key]) /\ ps[i][key] # R(0) }
            cov == WeightOf(ps, zero \cup nonzero)
        IN  /\ Present(ret.value) <=> (cov > 50)
            /\ Present(ret.value) =>
                   ret.value = RenormalisedInOrder(ps, key, nonzero, cov)
            /\ (cov > 50 /\ WeightedSumOver(ps, key, nonzero) = R(0)) =>
                   ret.value = DInt(0)

C4_Witness ==
    /\ ret.op = "calculateDividendYield"
    /\ \E i \in 1..Len(portfolio.positions) : portfolio.positions[i].dividendYieldPercent = R(0)
    /\ \A i \in 1..Len(portfolio.positions) :
           portfolio.positions[i].dividendYieldPercent \in {Null, R(0)}
    /\ ret.value = DInt(0)

\* the 1-year returns the fund's holdings carry
OneYearCarriers == Carrying(portfolio.positions, "oneYearChangePercent")

RECURSIVE SumOver(_, _)
SumOver(ps, S) ==
    IF S = {} THEN R(0)
    ELSE LET i == CHOOSE j \in S : TRUE IN
         RAdd(ps[i].oneYearChangePercent, SumOver(ps, S \ {i}))

RECURSIVE SquaredDeviationsOver(_, _, _)
SquaredDeviationsOver(ps, S, m) ==
    IF S = {} THEN R(0)
    ELSE LET i == CHOOSE j \in S : TRUE
             dev == RSub(ps[i].oneYearChangePercent, m)
         IN  RAdd(RMul(dev, dev), SquaredDeviationsOver(ps, S \ {i}, m))

\* sum of squared deviations from the unweighted mean, divided by the count
PopulationVariance(ps, S) ==
    LET n == Cardinality(S)
        m == RDiv(SumOver(ps, S), R(n))
    IN  RDiv(SquaredDeviationsOver(ps, S, m), R(n))

AllEqual(ps, S) ==
    \A i, j \in S : ps[i].oneYearChangePercent = ps[j].oneYearChangePercent

\* C5: calculateProjectedReturn returns the 1-year weighted aggregate minus
\* exactly 0.10 when that aggregate is present, and null exactly when it is
\* absent.
C5_ProjectedIsAggregateMinusExpense ==
    ret.op = "calculateProjectedReturn" =>
        LET agg == Aggregate(portfolio.positions, "oneYearChangePercent") IN
        /\ (ret.value = Null) <=> (agg = Null)
        /\ Present(agg) =>
              /\ ret.value = DSub(calculateWeightedReturn(portfolio, "oneYearChangePercent"),
                                  Double(Rat(1, 10)))
              /\ Near(ret.value, RSub(agg, Rat(1, 10)))

C5_Witness ==
    /\ ret.op = "calculateProjectedReturn"
    /\ OneYearCarriers # {}
    /\ coveredWeight(portfolio.positions, "oneYearChangePercent") <= 50
    /\ ret.value = Null

\* C6: calculateDividendYield gives the same outcome, presence and value, as
\* the weighted aggregator applied to the dividendYieldPercent field.
C6_DividendIsTheAggregator ==
    ret.op = "calculateDividendYield" =>
        LET agg == Aggregate(portfolio.positions, "dividendYieldPercent") IN
        /\ ret.value = calculateWeightedReturn(portfolio, "dividendYieldPercent")
        /\ Present(ret.value) <=> Present(agg)
        /\ Present(agg) => Near(ret.value, agg)

C6_Witness ==
    /\ ret.op = "calculateDividendYield"
    /\ coveredWeight(portfolio.positions, "dividendYieldPercent") = 50
    /\ ret.value = Null

\* C7: estimateVolatility returns a value exactly when at least 3 holdings
\* carry a 1-year return and their combined weight is >= 50.
C7_VolatilityGate ==
    ret.op = "estimateVolatility" =>
        (Present(ret.value) <=>
            (/\ Cardinality(OneYearCarriers) >= 3
             /\ WeightOf(portfolio.positions, OneYearCarriers) >= 50))

C7_Witness ==
    /\ ret.op = "estimateVolatility"
    /\ Cardinality(OneYearCarriers) >= 3
    /\ WeightOf(portfolio.positions, OneYearCarriers) = 50
    /\ Present(ret.value)

\* C8 as stated: when its gate passes, estimateVolatility is 0.7 times the
\* population standard deviation of the available 1-year returns; it does not
\* depend on the weights, is never negative and is 0 exactly when the returns
\* are equal.  The code violates the last part: for equal returns that no
\* double represents exactly the mean differs from them in the last place.
C8_PopulationDeviation ==
    (ret.op = "estimateVolatility" /\ Present(ret.value)) =>
        LET ps == portfolio.positions IN
        /\ Near(DMul(ret.value, ret.value),
                RMul(Rat(49, 100), PopulationVariance(ps, OneYearCarriers)))
        /\ DNonNegative(ret.value)
        /\ DIsZero(ret.value) <=> AllEqual(ps, OneYearCarriers)
        /\ \A i \in 1..Len(ps) : \A w \in Weights :
               LET other == estimateVolatility(WithPositions(portfolio, Reweighted(ps, i, w)))
               IN  Present(other) => other = ret.value

\* C9: calculateSharpeRatio returns null exactly when the projected return is
\* absent, the volatility proxy is absent or the volatility proxy is 0; what
\* it returns is finite (no quotient of a division by zero).
C9_SharpeAbsence ==
    ret.op = "calculateSharpeRatio" =>
        LET projectedReturn == calculateProjectedReturn(portfolio)
            volatility == estimateVolatility(portfolio)
        IN  /\ (ret.value = Null) <=>
                   (\/ projectedReturn = Null
                    \/ volatility = Null
                    \/ DIsZero(volatility))
            /\ Present(ret.value) => IsFinite(ret.value)

C9_Witness ==
    /\ ret.op = "calculateSharpeRatio"
    /\ Present(calculateProjectedReturn(portfolio))
    /\ Present(estimateVolatility(portfolio))
    /\ DIsZero(estimateVolatility(portfolio))
    /\ ret.value = Null

\* C10: a present Sharpe ratio is (projected return - 4.25) / volatility proxy
\* of the same portfolio; it is positive exactly when the projected return
\* exceeds 4.25 and 0 exactly when the projected return is 4.25.
C10_SharpeValue ==
    (ret.op = "calculateSharpeRatio" /\ Present(ret.value)) =>
        LET projectedReturn == calculateProjectedReturn(portfolio)
            volatility == estimateVolatility(portfolio)
        IN  /\ ret.value = DDiv(DSub(projectedReturn, Double(Rat(17, 4))), volatility)
            /\ (DLess(DInt(0), ret.value)) <=> DLess(Double(Rat(17, 4)), projectedReturn)
            /\ DIsZero(ret.value) <=> (projectedReturn = Double(Rat(17, 4)))

C10_Witness ==
    /\ ret.op = "calculateSharpeRatio"
    /\ Present(ret.value)
    /\ calculateProjectedReturn(portfolio) = Double(Rat(17, 4))
    /\ DIsZero(ret.value)

\* ------------------------------------------------------------- claims on the backtest
\* the last call was generateBacktestData
BacktestReturned == ret.op = "generateBacktestData"
\* the fund's aggregate of a trailing return, as section 4.1 states it
FundReturn(key) == Aggregate(portfolio.positions, key)
Fund1Y == FundReturn("oneYearChangePercent")
Fund3Y == FundReturn("threeYearChangePercent")
Fund5Y == FundReturn("fiveYearChangePercent")
Bench1Y == portfolio.metrics.benchmark1YearReturn
Bench3Y == portfolio.metrics.benchmark3YearReturn
Bench5Y == portfolio.metrics.benchmark5YearReturn
\* a series was produced
SeriesReturned == BacktestReturned /\ Len(ret.value) > 0
\* the series' point of month m
PointAt(m) == ret.value[m + 1]
\* the numbers f and g are equal as `===` has it: NaN equals nothing
DEquals(f, g) == IsFinite(f) /\ IsFinite(g) /\ ~DLess(f, g) /\ ~DLess(g, f)
\* the series value f is the integer n
Reads(f, n) == f = DInt(n)

\* C11: generateBacktestData returns exactly 61 points when the fund's 5-year
\* aggregate and the benchmark's 5-year return are both present, and the empty
\* sequence when either is absent, whatever the 1-year and 3-year anchors are.
C11_SixtyOnePointsOrNone ==
    BacktestReturned =>
        Len(ret.value) = (IF Present(Fund5Y) /\ Present(Bench5Y) THEN 61 ELSE 0)

\* a full series for a fund without a 1-year aggregate against a benchmark
\* without a 3-year return
C11_Witness ==
    /\ BacktestReturned
    /\ Len(ret.value) = 61
    /\ ~Present(Fund1Y)
    /\ ~Present(Bench3Y)

\* C12: in every non-empty series the first point (month 0) has fund = 10000
\* and sp500 = 10000 exactly, whichever anchors are present and whatever
\* their values.
C12_StartsAtStartValue ==
    SeriesReturned => Reads(PointAt(0).fund, 10000) /\ Reads(PointAt(0).sp500, 10000)

\* a series of a fund whose 3-year return is -100% (an infinite 3-year anchor)
\* against a benchmark without a 1-year and a 3-year return
C12_Witness ==
    /\ SeriesReturned
    /\ Fund3Y = R(-100)
    /\ ~Present(Bench1Y) /\ ~Present(Bench3Y)
    /\ Reads(PointAt(0).fund, 10000)
    /\ ~Reads(PointAt(60).sp500, 10000)

\* the "now" value 10000 * (1 + r5 / 100) of a series whose 5-year return is r5
NowValue(r5) == RMul(R(10000), RAdd(R(1), RDiv(r5, R(100))))
\* the greatest integer not above the rational x
RFloor(x) == x.n \div x.d
\* the integer nearest to the rational x, halves upwards
NearestInteger(x) == RFloor(RAdd(x, Rat(1, 2)))
\* the series value f is an integer within 1/2 + 1/64 of the rational x: the
\* rounding of a number within 1/64 of x
RoundsTo(f, x) ==
    \E n \in { RFloor(x), RFloor(x) + 1 } :
        /\ Reads(f, n)
        /\ 64 * Abs(n * x.d - x.n) <= 33 * x.d
\* a return that is present is above -100%
AboveTotalLoss(r) == Present(r) => RLess(R(-100), r)
FundAboveTotalLoss ==
    AboveTotalLoss(Fund1Y) /\ AboveTotalLoss(Fund3Y) /\ AboveTotalLoss(Fund5Y)
BenchAboveTotalLoss ==
    AboveTotalLoss(Bench1Y) /\ AboveTotalLoss(Bench3Y) /\ AboveTotalLoss(Bench5Y)
\* the anchor values generateBacktestData derives for the current portfolio
Anchors == BacktestAnchors(portfolio)

\* C13 as stated: the last point (month 60) of a series equals
\* round(10000 * (1 + r5/100)), whether the expression is read as the real
\* number or as the number the program's arithmetic gives it, for returns above
\* -100%.  It fails for a benchmark with a 5-year return of 0.125% and a 1-year
\* return of 5%: 10000 * (1 + 0.125/100) is 10012.5 and rounds to 10013, the
\* last window ends on 10012.499999999998 and the series on 10012.
C13_EndsAtNowExactly ==
    SeriesReturned =>
        /\ FundAboveTotalLoss =>
              \/ Reads(PointAt(60).fund, NearestInteger(NowValue(Fund5Y)))
              \/ DEquals(PointAt(60).fund, MathRound(Anchors.pVal_Now))
        /\ BenchAboveTotalLoss =>
              \/ Reads(PointAt(60).sp500, NearestInteger(NowValue(Bench5Y)))
              \/ DEquals(PointAt(60).sp500, MathRound(Anchors.bVal_Now))

\* C13 (amended): the last point (month 60) of a series is the rounding of a
\* number within 1/64 of 10000 * (1 + r5/100), for the fund with r5 the fund's
\* 5-year aggregate and for sp500 with r5 the benchmark's 5-year return, each
\* on its own, for every combination of present and absent 1-year and 3-year
\* anchors with returns above -100%.
C13_EndsAtNow ==
    SeriesReturned =>
        /\ FundAboveTotalLoss => RoundsTo(PointAt(60).fund, NowValue(Fund5Y))
        /\ BenchAboveTotalLoss => RoundsTo(PointAt(60).sp500, NowValue(Bench5Y))

\* a fund without a 1-year aggregate that ends on 15000, against a benchmark
\* whose "now" value is 12500.5 and whose series ends on 12500
C13_Witness ==
    /\ SeriesReturned
    /\ ~Present(Fund1Y) /\ Present(Fund3Y) /\ FundAboveTotalLoss
    /\ Reads(PointAt(60).fund, 15000)
    /\ NowValue(Bench5Y) = Rat(25001, 2)
    /\ Reads(PointAt(60).sp500, 12500)

\* now / (1 + r/100) for a return above -100%
AnchorValue(r5, r) == RDiv(NowValue(r5), RAdd(R(1), RDiv(r, R(100))))
\* the series value f equals round(now / (1 + r/100)), whether the expression
\* is read as the real number (where the quotient exists) or as the number the
\* program's arithmetic gives it
ReadsAnchor(f, anchor, r5, r) ==
    \/ DEquals(f, MathRound(anchor))
    \/ r # R(-100) /\ Reads(f, NearestInteger(AnchorValue(r5, r)))

\* C14 as stated, for every value of the returns: whenever a series' 3-year
\* anchor is present its value at month 24 equals round(now / (1 + r3/100)),
\* and whenever its 1-year anchor is present its value at month 48 equals
\* round(now / (1 + r1/100)).  It fails for a 5-year return of -100% (the
\* value at month 48 is NaN) and for a 3-year return of -100% with a 1-year
\* anchor.
C14_AnchorsPlacedWhateverTheReturns ==
    SeriesReturned =>
        /\ Present(Fund3Y) =>
              ReadsAnchor(PointAt(24).fund, Anchors.pVal_Minus3Y, Fund5Y, Fund3Y)
        /\ Present(Fund1Y) =>
              ReadsAnchor(PointAt(48).fund, Anchors.pVal_Minus1Y, Fund5Y, Fund1Y)
        /\ Present(Bench3Y) =>
              ReadsAnchor(PointAt(24).sp500, Anchors.bVal_Minus3Y, Bench5Y, Bench3Y)
        /\ Present(Bench1Y) =>
              ReadsAnchor(PointAt(48).sp500, Anchors.bVal_Minus1Y, Bench5Y, Bench1Y)

\* C14 (amended): for a series whose returns are all above -100%, with
\* now = 10000 * (1 + r5/100): whenever the 3-year anchor is present the value
\* at month 24 is the rounding of a number within 1/64 of now / (1 + r3/100),
\* and whenever the 1-year anchor is present the value at month 48 is the
\* rounding of a number within 1/64 of now / (1 + r1/100).
C14_AnchorsPlaced ==
    SeriesReturned =>
        /\ FundAboveTotalLoss =>
              /\ Present(Fund3Y) => RoundsTo(PointAt(24).fund, AnchorValue(Fund5Y, Fund3Y))
              /\ Present(Fund1Y) => RoundsTo(PointAt(48).fund, AnchorValue(Fund5Y, Fund1Y))
        /\ BenchAboveTotalLoss =>
              /\ Present(Bench3Y) => RoundsTo(PointAt(24).sp500, AnchorValue(Bench5Y, Bench3Y))
              /\ Present(Bench1Y) => RoundsTo(PointAt(48).sp500, AnchorValue(Bench5Y, Bench1Y))

\* a fund with a 1-year aggregate and no 3-year aggregate (its second window
\* starts from the interpolated month-24 value) that reads 12500 at month 48,
\* against a benchmark with both anchors that reads 12000 at month 24
C14_Witness ==
    /\ SeriesReturned
    /\ Present(Fund1Y) /\ ~Present(Fund3Y) /\ FundAboveTotalLoss
    /\ Reads(PointAt(48).fund, 12500)
    /\ Present(Bench1Y) /\ Present(Bench3Y) /\ BenchAboveTotalLoss
    /\ Reads(PointAt(24).sp500, 12000)
    /\ Reads(PointAt(48).sp500, 12500)

\* the numbers f and g differ by no more than the rounding of a few
\* operations: |f - g| <= (|f| + |g|) / 2^40
DClose(f, g) ==
    /\ IsFinite(f) /\ IsFinite(g)
    /\ LET Size(x) == [x EXCEPT !.sign = 0]
       IN  ~DLess(DMul(DAdd(Size(f), Size(g)), Finite(0, Lead, 0, -92)),
                  Size(DSub(f, g)))

\* C15: each window lands on its two endpoints: for every combination of
\* present and absent anchors (returns above -100%), the value window 1
\* produces at month 24 is the value window 2 starts from, and the value
\* window 2 produces at month 48 is the value window 3 starts from, so the
\* series has no jump at a boundary.  The code violates this when the 1-year
\* anchor is absent: window 2 ends on the "now" value, window 3 starts from the
\* 3-year anchor or from 10000.
C15_WindowsMeet ==
    SeriesReturned =>
        /\ FundAboveTotalLoss =>
              /\ DClose(CurveValue(Segment1(24, Anchors).p), Segment2(25, Anchors).p.start)
              /\ DClose(CurveValue(Segment2(48, Anchors).p), Segment3(49, Anchors).p.start)
        /\ BenchAboveTotalLoss =>
              /\ DClose(CurveValue(Segment1(24, Anchors).b), Segment2(25, Anchors).b.start)
              /\ DClose(CurveValue(Segment2(48, Anchors).b), Segment3(49, Anchors).b.start)

\* the month-48 boundary of a series without a 1-year anchor: the 3-year
\* anchor value if present, otherwise the start value
Fallback48(r5, r3) == IF Present(r3) THEN AnchorValue(r5, r3) ELSE R(10000)

\* C16: when the 1-year anchor is absent (returns above -100%), the month-48
\* boundary falls back to the 3-year anchor value if that is present and to
\* 10000 otherwise: window 2 ends on this value (it is the series' value at
\* month 48) and window 3 starts from it.  In the code only window 3 does.
C16_FallbackAtMonth48 ==
    SeriesReturned =>
        /\ (FundAboveTotalLoss /\ ~Present(Fund1Y)) =>
              /\ RoundsTo(PointAt(48).fund, Fallback48(Fund5Y, Fund3Y))
              /\ Near(Segment3(49, Anchors).p.start, Fallback48(Fund5Y, Fund3Y))
        /\ (BenchAboveTotalLoss /\ ~Present(Bench1Y)) =>
              /\ RoundsTo(PointAt(48).sp500, Fallback48(Bench5Y, Bench3Y))
              /\ Near(Segment3(49, Anchors).b.start, Fallback48(Bench5Y, Bench3Y))

RLeq(x, y) == ~RLess(y, x)
\* now >= 10000 and the anchor values that are present are in the order
\* 10000 <= three years ago <= one year ago <= now
AnchorsOrdered(r1, r3, r5) ==
    /\ AboveTotalLoss(r1) /\ AboveTotalLoss(r3) /\ AboveTotalLoss(r5)
    /\ RLeq(R(10000), NowValue(r5))
    /\ Present(r3) => /\ RLeq(R(10000), AnchorValue(r5, r3))
                       /\ RLeq(AnchorValue(r5, r3), NowValue(r5))
    /\ Present(r1) => /\ RLeq(R(10000), AnchorValue(r5, r1))
                       /\ RLeq(AnchorValue(r5, r1), NowValue(r5))
    /\ (Present(r1) /\ Present(r3)) => RLeq(AnchorValue(r5, r3), AnchorValue(r5, r1))

\* C17: monotonic compounding: for every combination of present and absent
\* anchors, if now >= 10000 and the present anchor values are ordered
\* 10000 <= 3y-ago <= 1y-ago <= now, no value of the series is smaller than
\* the value of the month before, from month 0 through month 60.  The code
\* violates this when the 1-year anchor is absent: the value drops after
\* month 48.
C17_NeverDecreases ==
    SeriesReturned =>
        /\ AnchorsOrdered(Fund1Y, Fund3Y, Fund5Y) =>
              \A m \in 0..59 : ~DLess(PointAt(m + 1).fund, PointAt(m).fund)
        /\ AnchorsOrdered(Bench1Y, Bench3Y, Bench5Y) =>
              \A m \in 0..59 : ~DLess(PointAt(m + 1).sp500, PointAt(m).sp500)

FundValues(series) == [i \in 1..Len(series) |-> series[i].fund]
Sp500Values(series) == [i \in 1..Len(series) |-> series[i].sp500]
WithMetrics(p, m) == [p EXCEPT !.metrics = m]
\* benchmarks and funds to exchange the current ones for: with and without
\* the 1-year and 3-year anchors, and with other values
OtherBenchmarks ==
    { Benchmark(R(20), Null, R(50)), Benchmark(Null, R(-5), R(10)) }
OtherFunds ==
    { <<Holding(65, R(20), Null, R(50))>>, <<Holding(65, Null, R(-5), R(10))>> }

\* C18: the two trajectories are independent: given that both 5-year anchors
\* are present, replacing the benchmark's 1-year, 3-year and 5-year returns by
\* others (5-year still present) changes no fund value of the series, and
\* replacing the holdings by others (5-year aggregate still present) changes
\* no sp500 value.  Every fund's series is compared with its series against
\* the same two other benchmarks, and every benchmark's series with its series
\* against the same two other funds.
C18_TrajectoriesIndependent ==
    SeriesReturned =>
        /\ \A m \in OtherBenchmarks :
              FundValues(generateBacktestData(WithMetrics(portfolio, m), referenceDate))
                  = FundValues(ret.value)
        /\ \A ps \in OtherFunds :
              Sp500Values(generateBacktestData(WithPositions(portfolio, ps), referenceDate))
                  = Sp500Values(ret.value)

\* a series of a fund with a 3-year and without a 1-year aggregate against a
\* benchmark without a 1-year and a 3-year return: the two trajectories differ
C18_Witness ==
    /\ SeriesReturned
    /\ ~Present(Fund1Y) /\ Present(Fund3Y)
    /\ ~Present(Bench1Y) /\ ~Present(Bench3Y)
    /\ PointAt(24).fund # PointAt(24).sp500
    /\ Reads(PointAt(24).fund, 12000)
    /\ Reads(PointAt(60).sp500, 15000)

\* C20: no call of calculateWeightedReturn, calculateDividendYield,
\* calculateProjectedReturn, estimateVolatility, calculateSharpeRatio,
\* calculateAllMetrics or generateBacktestData changes its inputs: the
\* portfolio (its positions and metrics) and the reference date are the same
\* after the call as before.
C20_InputsUntouched ==
    [][portfolio' = portfolio /\ referenceDate' = referenceDate]_vars

\* a series was generated for a fund with holdings and benchmark returns
C20_Witness ==
    /\ SeriesReturned
    /\ Len(portfolio.positions) = 2
    /\ Present(Bench1Y)
    /\ PointAt(0).dateObj # referenceDate

\* ------------------------------------------------------------- claims on calculateAllMetrics
AllMetricsReturned == ret.op = "calculateAllMetrics"
\* the numeral a formatted metric shows
NumeralOf(text) == IF "numeral" \in DOMAIN text THEN text.numeral ELSE text
\* the formatted metric shows the number x with the given fraction digits
Shows(text, x, digits) ==
    /\ text.kind = "string"
    /\ NumeralOf(text) = ToFixed(x, digits)

\* C21: calculateAllMetrics propagates absence unchanged: each of
\* projectedReturn, dividendYield, sharpeRatio and annualizedVolatility is null
\* exactly when the corresponding numeric computation is absent, and otherwise
\* shows that computation's number, never a zero or a placeholder; hence a
\* non-null sharpeRatio implies a non-null projectedReturn and a non-null
\* annualizedVolatility.
C21_AbsencePropagates ==
    AllMetricsReturned =>
        LET m == ret.value
            projected == calculateProjectedReturn(portfolio)
            dividend == calculateDividendYield(portfolio)
            sharpe == calculateSharpeRatio(portfolio)
            volatility == estimateVolatility(portfolio)
        IN  /\ IF Present(projected) THEN Shows(m.projectedReturn, projected, 1)
                                     ELSE m.projectedReturn = Null
            /\ IF Present(dividend) THEN Shows(m.dividendYield, dividend, 2)
                                    ELSE m.dividendYield = Null
            /\ IF Present(sharpe) THEN Shows(m.sharpeRatio, sharpe, 2)
                                  ELSE m.sharpeRatio = Null
            /\ m.annualizedVolatility = volatility
            /\ Present(m.sharpeRatio) =>
                  Present(m.projectedReturn) /\ Present(m.annualizedVolatility)

\* metrics with a volatility but without a projected return, a Sharpe ratio
\* and a dividend yield
C21_Witness ==
    /\ AllMetricsReturned
    /\ ret.value.projectedReturn = Null
    /\ ret.value.sharpeRatio = Null
    /\ ret.value.dividendYield = Null
    /\ Present(ret.value.annualizedVolatility)

\* ------------------------------------------------------------- claims on the dates
\* the calendar month of a date, counted in months
MonthNumber(date) == 12 * date.year + date.month
\* the date d is not after the date e
NotAfter(d, e) ==
    \/ MonthNumber(d) < MonthNumber(e)
    \/ MonthNumber(d) = MonthNumber(e) /\ d.day <= e.day

\* C22: the 61 points are in chronological order, one per calendar month: for
\* every reference date, the 29th to 31st of a month included, point m has
\* monthIndex m and a date in the calendar month that is exactly 60 - m months
\* before the reference date's month, and the last point's date is the
\* reference date.  The code violates this for a reference date on the 31st
\* (and on the 29th or 30th when February is crossed): setMonth carries the
\* days a shorter month does not have into the next month.
C22_OnePointPerMonth ==
    SeriesReturned =>
        /\ \A m \in 0..60 :
              /\ PointAt(m).monthIndex = m
              /\ MonthNumber(PointAt(m).dateObj) = MonthNumber(referenceDate) - (60 - m)
        /\ \A m \in 0..59 : NotAfter(PointAt(m).dateObj, PointAt(m + 1).dateObj)
        /\ PointAt(60).dateObj = referenceDate

ValuesOf(series) ==
    [i \in 1..Len(series) |->
        [fund |-> series[i].fund, sp500 |-> series[i].sp500,
         monthIndex |-> series[i].monthIndex]]

\* reference dates to exchange the current one for
OtherDates == { MakeDate(2024, 1, 15), MakeDate(2023, 11, 31) }

\* C27: the fund, sp500 and monthIndex of the series depend on the portfolio
\* only: generateBacktestData on the same portfolio with another reference
\* date (the current time of a call without the argument is one of them)
\* returns a series of the same length with the same fund, sp500 and
\* monthIndex at every position.  The series of every reference date is
\* compared with the series of the same two other dates.
C27_ValuesIgnoreTheDate ==
    BacktestReturned =>
        \A d \in OtherDates :
            ValuesOf(generateBacktestData(portfolio, d)) = ValuesOf(ret.value)

\* a full series generated on a 31st, whose dates differ from those of the
\* series generated on the 15th of the month before
C27_Witness ==
    /\ SeriesReturned
    /\ referenceDate = MakeDate(2024, 2, 31)
    /\ Reads(PointAt(24).fund, 12000)
    /\ PointAt(1).dateObj # generateBacktestData(portfolio, MakeDate(2024, 1, 15))[2].dateObj
    /\ PointAt(1).fund = generateBacktestData(portfolio, MakeDate(2024, 1, 15))[2].fund

\* ------------------------------------------------------------- claims on the aggregates
\* the aggregator call that returned, with the field it aggregated
AggregateReturned ==
    \/ ret.op = "calculateWeightedReturn"
    \/ ret.op = "calculateDividendYield"
AggregatedKey ==
    IF ret.op = "calculateDividendYield" THEN "dividendYieldPercent" ELSE ret.key
CoveredHoldings == Carrying(portfolio.positions, AggregatedKey)
CoveredValue(i) == portfolio.positions[i][AggregatedKey]
WeightsNonNegative == \A i \in 1..Len(portfolio.positions) : portfolio.positions[i].weight >= 0

\* C25 as stated: whenever calculateWeightedReturn or calculateDividendYield
\* returns a value and no weight is negative, the value lies between the least
\* and the greatest value of the covered holdings; if the covered holdings all
\* have the same value v, the result is v.
C25_WithinCoveredValues ==
    (AggregateReturned /\ Present(ret.value) /\ WeightsNonNegative) =>
        /\ \E i \in CoveredHoldings : DLeq(Double(CoveredValue(i)), ret.value)
        /\ \E j \in CoveredHoldings : DLeq(ret.value, Double(CoveredValue(j)))
        /\ \A i \in CoveredHoldings :
              (\A j \in CoveredHoldings : CoveredValue(j) = CoveredValue(i))
                  => ret.value = Double(CoveredValue(i))

\* C25 (amended): whenever calculateWeightedReturn or calculateDividendYield
\* returns a value and no weight is negative, the value lies between the least
\* and the greatest value of the covered holdings up to the rounding of the
\* double arithmetic; if the covered holdings all have the same value v, the
\* result is v up to that rounding.
C25_WithinCoveredValuesUpToRounding ==
    (AggregateReturned /\ Present(ret.value) /\ WeightsNonNegative) =>
        /\ \E i \in CoveredHoldings :
              DLeq(Double(CoveredValue(i)), ret.value) \/ Near(ret.value, CoveredValue(i))
        /\ \E j \in CoveredHoldings :
              DLeq(ret.value, Double(CoveredValue(j))) \/ Near(ret.value, CoveredValue(j))
        /\ \A i \in CoveredHoldings :
              (\A j \in CoveredHoldings : CoveredValue(j) = CoveredValue(i))
                  => Near(ret.value, CoveredValue(i))

\* a value returned for a fund with a holding that lacks the field and a
\* covered holding of weight zero whose value is not the result
C25_Witness ==
    /\ ret.op = "calculateWeightedReturn"
    /\ Present(ret.value)
    /\ WeightsNonNegative
    /\ \E i \in 1..Len(portfolio.positions) : i \notin CoveredHoldings
    /\ \E i \in CoveredHoldings :
          portfolio.positions[i].weight = 0 /\ ~Near(ret.value, CoveredValue(i))

\* C26 as stated: in a portfolio where at least 3 holdings carry a 1-year
\* return, estimateVolatility is present exactly when calculateProjectedReturn
\* is present.
C26_SameCoverageSufficiency ==
    (ret.op = "estimateVolatility" /\ Cardinality(OneYearCarriers) >= 3) =>
        (Present(ret.value) <=> Present(calculateProjectedReturn(portfolio)))

\* C26 (amended): in a portfolio where at least 3 holdings carry a 1-year
\* return, estimateVolatility is present exactly when calculateProjectedReturn
\* is present, except when the weight of those holdings is exactly 50: then
\* the volatility is present and the projected return is absent.
C26_CoverageSufficiencyButAtFifty ==
    (ret.op = "estimateVolatility" /\ Cardinality(OneYearCarriers) >= 3) =>
        IF WeightOf(portfolio.positions, OneYearCarriers) = 50
        THEN Present(ret.value) /\ ~Present(calculateProjectedReturn(portfolio))
        ELSE Present(ret.value) <=> Present(calculateProjectedReturn(portfolio))

C26_Witness ==
    /\ ret.op = "estimateVolatility"
    /\ Cardinality(OneYearCarriers) >= 3
    /\ Present(ret.value)
    /\ calculateProjectedReturn(portfolio) = Null
    /\ calculateSharpeRatio(portfolio) = Null

\* ------------------------------------------------------------- claims on the refresh
\* the fields of a quote and the field of the position each is merged into
QuoteFields == {"price", "oneYearChange", "threeYearChange", "fiveYearChange"}
PositionField(f) ==
    CASE f = "price" -> "currentPrice"
      [] f = "oneYearChange" -> "oneYearChangePercent"
      [] f = "threeYearChange" -> "threeYearChangePercent"
      [] f = "fiveYearChange" -> "fiveYearChangePercent"

\* the last call that returned was a direct call of refreshPortfolioPrices
RefreshReturned == ret.op = "refreshPortfolioPrices" /\ "call" \in DOMAIN ret.value

\* the number a record of answers holds for the field of the ticker, if any
Fetched(data, ticker, f) ==
    IF TruthyJson(Lookup(data, ticker)) /\ IsNumber(Field(Lookup(data, ticker), f))
    THEN Field(Lookup(data, ticker), f)
    ELSE Null

\* one refresh, from the portfolio before its merge to the portfolio after
\* it, given the answers it has collected (allMarketData), keeps
\* every field that was present, changing it only to the number fetched for
\* it, and leaves a position unchanged when no number was fetched for it
KeepsKnownData(before, after, data) ==
    /\ Len(after.positions) = Len(before.positions)
    /\ \A i \in 1..Len(before.positions) :
          LET old == before.positions[i]
              new == after.positions[i]
          IN  /\ \A f \in QuoteFields :
                    /\ Present(old[PositionField(f)]) => Present(new[PositionField(f)])
                    /\ \/ new[PositionField(f)] = old[PositionField(f)]
                       \/ /\ IsNumber(new[PositionField(f)])
                          /\ new[PositionField(f)] = Fetched(data, old.ticker, f)
              /\ (\A f \in QuoteFields : Fetched(data, old.ticker, f) = Null) => new = old

\* C24: refreshPortfolioPrices never erases known data: a current price or a
\* 1-, 3- or 5-year return that a position had before a refresh is present
\* after it, changed only to a newly fetched number, and a position for
\* which nothing was fetched is returned unchanged, in every refresh of any
\* sequence of refreshes.
C24_NeverErasesKnownData ==
    [][(ret'.op = "refreshPortfolioPrices" /\ "call" \in DOMAIN ret'.value)
           => KeepsKnownData(portfolio, portfolio', ret'.value.call.allMarketData)]_vars

\* after a refresh whose answer for a ticker had a price and a string in
\* place of the 3-year return: the price is the fetched one, the 3-year
\* return the one the position had
C24_Witness ==
    /\ RefreshReturned
    /\ \E i \in 1..Len(portfolio.positions) :
          LET data == Lookup(ret.value.call.allMarketData, portfolio.positions[i].ticker) IN
          /\ TruthyJson(data)
          /\ Field(data, "threeYearChange") = Text("N/A")
          /\ portfolio.positions[i].threeYearChangePercent = R(25)
          /\ portfolio.positions[i].currentPrice = R(75)

\* C30: the repair pass only adds data: a number that the first pass returned
\* for a field of a ticker is merged into the position after the retry,
\* unless the retry returned a number for the same field.  The code
\* violates this: the retry's entry for a key replaces the first pass's
\* entry as a whole.
C30_RepairOnlyAdds ==
    RefreshReturned =>
        \A i \in 1..Len(portfolio.positions) : \A f \in QuoteFields :
            LET ticker == portfolio.positions[i].ticker
                first == Fetched(ret.value.call.firstPass, ticker, f)
                retry == Fetched(ret.value.call.retryData, ticker, f)
            IN  (IsNumber(first) /\ ~IsNumber(retry))
                    => portfolio.positions[i][PositionField(f)] = first

\* ------------------------------------------------------------- claims on the App
\* C23: the series that PerformanceComparison displays is the one
\* generateBacktestData gives for the current portfolio, after every
\* completed construction, rebalance or price refresh (and all the time):
\* never a series memoized from the holdings before the operation.
C23_SeriesOfCurrentPortfolio ==
    /\ (memo = Null) <=> (portfolio = Null)
    /\ portfolio # Null =>
          \/ memo.source = portfolio /\ memo.now = referenceDate
          \/ backtestData(memo) = generateBacktestData(portfolio, referenceDate)

\* after a refresh that changed the series: the series displayed is not the
\* one of the portfolio the refresh was given
C23_Witness ==
    /\ ret.op = "refreshPortfolioPrices"
    /\ portfolio = ret.value.result
    /\ portfolio # ret.value.argument
    /\ Len(backtestData(memo)) = 61
    /\ backtestData(memo) # generateBacktestData(ret.value.argument, referenceDate)

\* C28 as stated: Clear is final: while nothing is stored, in memory or in
\* localStorage, and no construction is under way, nothing comes back; a
\* refresh that was in flight when Clear was pressed does not restore the
\* portfolio.  The code violates this: the rest of handleRefresh stores
\* the refreshed portfolio whatever happened since the call.
C28_ClearIsFinal ==
    [][(portfolio = Null /\ storage = Null /\ ~isGenerating)
            => (portfolio' = Null /\ storage' = Null)]_vars

\* C29 as stated: the analysis held for the stock detail modal belongs to the
\* selected stock: none is held while no stock is selected, and the one held
\* is the answer of analyzeStock for the ticker of the selected stock.  The
\* code violates this: the rest of handleSelectStock stores the result of
\* its call whatever was selected or closed since.
C29_AnalysisOfSelectedStock ==
    stockAnalysis # Null =>
        /\ selectedStock # Null
        /\ stockAnalysis = StockAnalysisResult(selectedStock.ticker)

====
